---- MODULE Spec2Model ----
(***************************************************************************)
(* A model of astra, the static OpenAPI extractor for gin services.        *)
(*                                                                         *)
(* The module holds six state machines that share no state:                *)
(*   - the package cache       (astTraversal: LoadPackageWithMode),        *)
(*   - the type resolver       (astTraversal: TypeTraverser.Result),       *)
(*   - the handler walker      (inputs/gin: ParseRoutes, parseFunction),   *)
(*   - the schema emitter      (outputs/openapi: Generate),                *)
(*   - the handler locator     (MapHandlerLocator.Locate),                 *)
(*   - the route index         (inputs/gin: lookupRouteIndex).             *)
(* Each has its own specification; the variables of the other machines     *)
(* stay at their idle values.                                              *)
(***************************************************************************)
EXTENDS Integers, Sequences, FiniteSets, TLC

VARIABLES
    \* ---- package cache (astTraversal/loadPackage.go:29-93)
    cachedPackages,     \* the process-global map: cache key -> package
    cachedPackagesMu,   \* the mutex: 0 when free, else the goroutine holding it
    gpc,                \* per goroutine: its position in LoadPackageWithMode
    gcall,              \* per goroutine: the arguments and locals of its call
    loadCount,          \* how many times packages.Load has been invoked
    returned,           \* history: per (path, mode), the first package returned
    lastCall,           \* history: the call that returned last
    \* ---- type resolver (astTraversal/loadPackage.go:106-657)
    typeResultCache,    \* BaseTraverser.typeResultCache: cache key -> Result
    typeTrace,          \* BaseTraverser.typeTrace: the labels in progress
    shouldAddComponent, \* BaseTraverser.shouldAddComponent: a sink is registered
    typeTraceLimit,     \* BaseTraverser.typeTraceLimit: 0 when no limit is set
    frames,             \* the call stack of Result: one frame per running call
    ret,                \* the value the call that ended last handed to its caller
    Components,         \* Service.Components
    first,              \* history: per node, what its first top-level call returned
    top,                \* history: the top-level call in progress or ended last
    \* ---- handler walker (inputs/gin: parseFunction, ParseRoutes)
    Routes,             \* Service.Routes
    routeIdx,           \* ParseRoutes: the index of the loop over Service.Routes
    route,              \* ParseRoutes: the loop's copy of the route being parsed
    wstack,             \* the call stack of parseFunction: one frame per running call
    wret,               \* the error the parseFunction that ended last returned
    activeFile,         \* BaseTraverser.activeFile
    parseState,         \* ParseRoutes: running, ok, failed, or crashed
    skippedRoutes,       \* history: the routes whose failed parse was skipped
    \* ---- OpenAPI emitter (outputs/openapi/generate.go)
    service,            \* the Service Generate is run on: Config, Routes, Components
    genState,           \* the position of Generate
    genRun,             \* which run of Generate on this service this is
    endpointIdx,        \* the index of the next route of the loop over s.Routes
    collisionSafeNames, \* the package variable: the name entries with their keys
    operationIDs,       \* the local map operationIDs: how often each ID was used
    paths,              \* the local map paths, one entry per path and method
    componentSchemas,   \* the local components.Schemas
    firstPaths,         \* the paths of the first run
    \* ---- handler locator (handlerLocator.go:20-45)
    locatorIndex,       \* the MapHandlerLocator
    located,            \* history: the calls of Locate made, each with its result
    \* ---- route index (inputs/gin/createRoutes.go:22-70)
    routeIndexOnce,     \* the sync.Once: new, running (and by whom), or done
    routeIndex,         \* the package variable: nil, or the decoded index
    indexFile,          \* the file at ASTRA_ROUTE_INDEX_PATH, as it is now
    lpc,                \* per goroutine: its position in lookupRouteIndex
    lcall,              \* per goroutine: the name asked for and the locals
    fileReads,          \* how many times os.ReadFile has been invoked
    fileAtRead,         \* history: the file as the first os.ReadFile found it
    lookups             \* history: the lookups that returned, each with its result

cacheVars == <<cachedPackages, cachedPackagesMu, gpc, gcall, loadCount, returned, lastCall>>

resolverVars == <<typeResultCache, typeTrace, shouldAddComponent, typeTraceLimit, frames, ret,
                  Components, first, top>>

walkerVars == <<Routes, routeIdx, route, wstack, wret, activeFile, parseState, skippedRoutes>>

emitVars == <<service, genState, genRun, endpointIdx, collisionSafeNames, operationIDs, paths,
              componentSchemas, firstPaths>>

locatorVars == <<locatorIndex, located>>

routeIndexVars == <<routeIndexOnce, routeIndex, indexFile, lpc, lcall, fileReads, fileAtRead,
                    lookups>>

vars == <<cacheVars, resolverVars, walkerVars, emitVars, locatorVars, routeIndexVars>>

\* What each machine leaves alone.
notCacheVars == <<resolverVars, walkerVars, emitVars, locatorVars, routeIndexVars>>
notResolverVars == <<cacheVars, walkerVars, emitVars, locatorVars, routeIndexVars>>
notWalkerVars == <<cacheVars, resolverVars, emitVars, locatorVars, routeIndexVars>>
notEmitVars == <<cacheVars, resolverVars, walkerVars, locatorVars, routeIndexVars>>
notLocatorVars == <<cacheVars, resolverVars, walkerVars, emitVars, routeIndexVars>>
notRouteIndexVars == <<cacheVars, resolverVars, walkerVars, emitVars, locatorVars>>

None == "none"

(***************************************************************************)
(*                            PACKAGE CACHE                                *)
(***************************************************************************)

\* Bounds of the package-cache model.
NumGoroutines == 2
MaxLoads == 3

Goroutines == 1..NumGoroutines
PkgPaths == {"a", "a1"}
WorkDirs == {"w1", "w2"}
\* packages.LoadMode is an integer bit set; the callers pass arbitrary modes.
LoadModes == {2, 12}

\* What packages.Load can do for one request: return a package, fail, return a
\* package carrying an error of one of four kinds, or return no package.
LoaderOutcomes == {"ok", "err", "ListError", "TypeError", "ParseError", "UnknownError", "empty"}

\* fmt.Sprintf("%s%d", pkgPath, mode): the key without its separator.
cacheKeyNoSeparator(pkgPath, mode) == pkgPath \o ToString(mode)

\* fmt.Sprintf("%s|%d", pkgPath, mode)
cacheKey(pkgPath, mode) == pkgPath \o "|" \o ToString(mode)

\* The nil *packages.Package.
NilPkg == [id |-> 0, path |-> "", mode |-> 0, dir |-> ""]

NoCall == [pkgPath |-> None, workDir |-> None, mode |-> 0, pkg |-> NilPkg, loaded |-> FALSE, prior |-> NilPkg]

InitCache ==
    /\ cachedPackages = <<>>
    /\ cachedPackagesMu = 0
    /\ gpc = [g \in Goroutines |-> "idle"]
    /\ gcall = [g \in Goroutines |-> NoCall]
    /\ loadCount = 0
    /\ returned = <<>>
    /\ lastCall = NoCall @@ [err |-> None, done |-> FALSE]

\* A goroutine returns from LoadPackageWithMode with package pkg or error err.
ReturnFromLoad(g, pkg, err) ==
    /\ gpc' = [gpc EXCEPT ![g] = "idle"]
    /\ lastCall' = [pkgPath |-> gcall[g].pkgPath, workDir |-> gcall[g].workDir,
                    mode |-> gcall[g].mode, pkg |-> pkg, loaded |-> gcall[g].loaded,
                    prior |-> gcall[g].prior, err |-> err, done |-> TRUE]
    /\ returned' = IF pkg # NilPkg /\ <<gcall[g].pkgPath, gcall[g].mode>> \notin DOMAIN returned
                   THEN returned @@ (<<gcall[g].pkgPath, gcall[g].mode>> :> pkg)
                   ELSE returned
    /\ gcall' = [gcall EXCEPT ![g] = NoCall]
    /\ UNCHANGED notCacheVars

\* A caller enters LoadPackageWithMode(pkgPath, workDir, mode) while no other
\* call is running (the sequential use of the cache).
CallSequential(g, pkgPath, workDir, mode) ==
    /\ \A h \in Goroutines : gpc[h] = "idle"
    /\ gpc' = [gpc EXCEPT ![g] = "lock1"]
    /\ gcall' = [gcall EXCEPT ![g] =
                    [pkgPath |-> pkgPath, workDir |-> workDir, mode |-> mode, pkg |-> NilPkg,
                     loaded |-> FALSE,
                     prior |-> IF <<pkgPath, mode>> \in DOMAIN returned
                               THEN returned[<<pkgPath, mode>>] ELSE NilPkg]]
    /\ UNCHANGED <<cachedPackages, cachedPackagesMu, loadCount, returned, lastCall>>
    /\ UNCHANGED notCacheVars

\* A lock that does not wait for the mutex to be free.
LockForLookupNoWait(g) ==
    /\ gpc[g] = "lock1"
    /\ cachedPackagesMu' = g
    /\ gpc' = [gpc EXCEPT ![g] = "lookup"]
    /\ UNCHANGED <<cachedPackages, gcall, loadCount, returned, lastCall>>
    /\ UNCHANGED notCacheVars

\* A cache that keeps the failure of the loader under the key.
LoadFailsCached(g, outcome) ==
    /\ gpc[g] = "loading"
    /\ outcome # "ok"
    /\ cachedPackages' =
          [k \in DOMAIN cachedPackages \cup {cacheKey(gcall[g].pkgPath, gcall[g].mode)} |->
              IF k = cacheKey(gcall[g].pkgPath, gcall[g].mode) THEN NilPkg
              ELSE cachedPackages[k]]
    /\ ReturnFromLoad(g, NilPkg, outcome)
    /\ UNCHANGED <<cachedPackagesMu, loadCount>>

\* cachedPackagesMu.Lock() at line 43.
LockForLookup(g) ==
    /\ gpc[g] = "lock1"
    /\ cachedPackagesMu = 0
    /\ cachedPackagesMu' = g
    /\ gpc' = [gpc EXCEPT ![g] = "lookup"]
    /\ UNCHANGED <<cachedPackages, gcall, loadCount, returned, lastCall>>
    /\ UNCHANGED notCacheVars

\* Lines 44-48: the lookup under the mutex; a hit returns the cached package.
LookupHit(g) ==
    /\ gpc[g] = "lookup"
    /\ cacheKey(gcall[g].pkgPath, gcall[g].mode) \in DOMAIN cachedPackages
    /\ cachedPackagesMu' = 0
    /\ ReturnFromLoad(g, cachedPackages[cacheKey(gcall[g].pkgPath, gcall[g].mode)], None)
    /\ UNCHANGED <<cachedPackages, loadCount>>

LookupMiss(g) ==
    /\ gpc[g] = "lookup"
    /\ cacheKey(gcall[g].pkgPath, gcall[g].mode) \notin DOMAIN cachedPackages
    /\ cachedPackagesMu' = 0
    /\ gpc' = [gpc EXCEPT ![g] = "load"]
    /\ UNCHANGED <<cachedPackages, gcall, loadCount, returned, lastCall>>
    /\ UNCHANGED notCacheVars

\* LoadPackageNoCache, lines 64-93: packages.Load is invoked (line 65) ...
LoadBegin(g) ==
    /\ gpc[g] = "load"
    /\ loadCount < MaxLoads
    /\ loadCount' = loadCount + 1
    /\ gpc' = [gpc EXCEPT ![g] = "loading"]
    /\ gcall' = [gcall EXCEPT ![g].loaded = TRUE]
    /\ UNCHANGED <<cachedPackages, cachedPackagesMu, returned, lastCall>>
    /\ UNCHANGED notCacheVars

\* ... and returns: pkgs[0] when it loaded a package free of errors (line 92),
\* a fresh *packages.Package each time.
LoadOk(g) ==
    /\ gpc[g] = "loading"
    /\ gpc' = [gpc EXCEPT ![g] = "lock2"]
    /\ gcall' = [gcall EXCEPT ![g].pkg =
                    [id |-> loadCount, path |-> gcall[g].pkgPath,
                     mode |-> gcall[g].mode, dir |-> gcall[g].workDir]]
    /\ UNCHANGED <<cachedPackages, cachedPackagesMu, loadCount, returned, lastCall>>
    /\ UNCHANGED notCacheVars

\* Lines 69-71, 73-90 and 51-53: every failure of the loader is returned as an
\* error, and the cache is left alone.
LoadFails(g, outcome) ==
    /\ gpc[g] = "loading"
    /\ outcome # "ok"
    /\ ReturnFromLoad(g, NilPkg, outcome)
    /\ UNCHANGED <<cachedPackages, cachedPackagesMu, loadCount>>

\* cachedPackagesMu.Lock() at line 55.
LockForStore(g) ==
    /\ gpc[g] = "lock2"
    /\ cachedPackagesMu = 0
    /\ cachedPackagesMu' = g
    /\ gpc' = [gpc EXCEPT ![g] = "store"]
    /\ UNCHANGED <<cachedPackages, gcall, loadCount, returned, lastCall>>
    /\ UNCHANGED notCacheVars

\* Lines 56-59: the entry is written under the mutex and the package returned.
StoreAndReturn(g) ==
    /\ gpc[g] = "store"
    /\ cachedPackages' =
          [k \in DOMAIN cachedPackages \cup {cacheKey(gcall[g].pkgPath, gcall[g].mode)} |->
              IF k = cacheKey(gcall[g].pkgPath, gcall[g].mode) THEN gcall[g].pkg
              ELSE cachedPackages[k]]
    /\ cachedPackagesMu' = 0
    /\ ReturnFromLoad(g, gcall[g].pkg, None)
    /\ UNCHANGED loadCount

LoadPackageWithMode(g) ==
    \/ LockForLookup(g)
    \/ LookupHit(g)
    \/ LookupMiss(g)
    \/ LoadBegin(g)
    \/ LoadOk(g)
    \/ \E outcome \in LoaderOutcomes : LoadFails(g, outcome)
    \/ LockForStore(g)
    \/ StoreAndReturn(g)

NextCacheSeq ==
    \/ \E g \in Goroutines, p \in PkgPaths, w \in WorkDirs, m \in LoadModes :
          CallSequential(g, p, w, m)
    \/ \E g \in Goroutines : LoadPackageWithMode(g)


\* C10: once LoadPackageWithMode(p, w, m) has returned a package, every later
\* sequential call with the same path and mode, whatever its working directory,
\* returns that same package without invoking the loader; a call whose (path,
\* mode) has not yet returned a package hits no entry: it invokes the loader, and
\* the package it returns is one loaded for its own path and mode.
C10_MemoisedOnPathAndMode ==
    lastCall.done =>
        /\ (lastCall.prior # NilPkg) =>
              (lastCall.pkg = lastCall.prior /\ ~lastCall.loaded /\ lastCall.err = None)
        /\ (lastCall.prior = NilPkg) => lastCall.loaded
        /\ (lastCall.pkg # NilPkg) =>
              (lastCall.pkg.path = lastCall.pkgPath /\ lastCall.pkg.mode = lastCall.mode)

\* A call answered from the cache for a working directory other than the one
\* the package was loaded from.
C10_Witness_HitFromOtherWorkDir ==
    /\ lastCall.done
    /\ lastCall.prior # NilPkg
    /\ ~lastCall.loaded
    /\ lastCall.pkg = lastCall.prior
    /\ lastCall.workDir # lastCall.pkg.dir

\* A goroutine enters LoadPackageWithMode(pkgPath, workDir, mode) whatever the
\* other goroutines are doing (the concurrent use of the cache).
Call(g, pkgPath, workDir, mode) ==
    /\ gpc[g] = "idle"
    /\ gpc' = [gpc EXCEPT ![g] = "lock1"]
    /\ gcall' = [gcall EXCEPT ![g] =
                    [pkgPath |-> pkgPath, workDir |-> workDir, mode |-> mode, pkg |-> NilPkg,
                     loaded |-> FALSE,
                     prior |-> IF <<pkgPath, mode>> \in DOMAIN returned
                               THEN returned[<<pkgPath, mode>>] ELSE NilPkg]]
    /\ UNCHANGED <<cachedPackages, cachedPackagesMu, loadCount, returned, lastCall>>
    /\ UNCHANGED notCacheVars

\* The calls the goroutines make concurrently: both packages, one working
\* directory and one mode.
ConcurrentCalls == { <<p, "w1", 2>> : p \in PkgPaths }

NextCacheConc ==
    \/ \E g \in Goroutines, c \in ConcurrentCalls : Call(g, c[1], c[2], c[3])
    \/ \E g \in Goroutines : LoadPackageWithMode(g)

\* The goroutines inside packages.Load, and those reading or writing the map.
Loading == { g \in Goroutines : gpc[g] = "loading" }
AccessingMap == { g \in Goroutines : gpc[g] \in {"lookup", "store"} }

\* C11: with goroutines calling LoadPackageWithMode concurrently, at most one
\* underlying package load is in progress at any moment.
C11_AtMostOneLoadInProgress == Cardinality(Loading) <= 1

\* C12: every read and every write of the cache map happens with the mutex held
\* by the goroutine that makes it, so at most one goroutine is at the map at any
\* moment; and a write leaves under its key the package of the goroutine that
\* writes, whatever entry the key had before.
C12_MapAccessUnderMutex ==
    /\ [](\A g \in AccessingMap : cachedPackagesMu = g)
    /\ [][\A g \in Goroutines :
             (gpc[g] = "store" /\ gpc'[g] = "idle") =>
                 cachedPackages'[cacheKey(gcall[g].pkgPath, gcall[g].mode)] = gcall[g].pkg]_vars

\* Two callers missed on the same key and both loaded: the entry left in the
\* cache is the package written last, not the one written and returned first.
C12_Witness_LastWriterWins ==
    /\ lastCall.done
    /\ lastCall.loaded
    /\ lastCall.err = None
    /\ lastCall.prior = NilPkg
    /\ returned[<<lastCall.pkgPath, lastCall.mode>>] # lastCall.pkg
    /\ cachedPackages[cacheKey(lastCall.pkgPath, lastCall.mode)] = lastCall.pkg
    /\ \A g \in Goroutines : gpc[g] = "idle"

\* C13: a call whose loader failed, returned no package or reported a list,
\* type, parse or unknown error returns an error and no package, and the cache
\* has no entry for its key; the next call with that key finds no entry at its
\* lookup and goes on to the loader.
C13_FailureIsNotCached ==
    /\ []((lastCall.done /\ lastCall.err # None) =>
            /\ lastCall.pkg = NilPkg
            /\ lastCall.loaded
            /\ cacheKey(lastCall.pkgPath, lastCall.mode) \notin DOMAIN cachedPackages)
    /\ [][\A g \in Goroutines :
             (/\ lastCall.done /\ lastCall.err # None
              /\ gpc[g] = "lookup" /\ gpc'[g] # "lookup"
              /\ gcall[g].pkgPath = lastCall.pkgPath /\ gcall[g].mode = lastCall.mode)
                 => gpc'[g] = "load"]_vars

\* After a call that failed on a type error, the next call with the same key is
\* inside the loader.
C13_Witness_LoaderInvokedAgain ==
    /\ lastCall.done
    /\ lastCall.err = "TypeError"
    /\ loadCount = 2
    /\ \E g \in Goroutines :
          /\ gpc[g] = "loading"
          /\ gcall[g].pkgPath = lastCall.pkgPath
          /\ gcall[g].mode = lastCall.mode

(***************************************************************************)
(*                             TYPE RESOLVER                               *)
(***************************************************************************)

\* Bounds of the resolver model: the deepest call stack the model follows, and
\* the depth limit of the configurations that set one.
MaxFrames == 12
TraceLimit == 3

\* The type graph under resolution: go/types nodes of the analysed program.
\*   type A string; type B string; type N struct{Next *N; Tags []string; hidden int}
\*   type X struct{Self *X; C chan int}                      (package p)
\*   type M map[string][]M; type T struct{Items [2]p.N; B p.B; Err error}  (package q)
\*   type V int                      (package bad, which does not load)
\* str is types.Type.String(); elem is Elem() or Underlying(); a struct lists
\* its fields as (Id, Exported, Embedded, Tag, type).
TNode(kind, str, pkg, name, elem, key, len, fields) ==
    [kind |-> kind, str |-> str, pkg |-> pkg, name |-> name, elem |-> elem, key |-> key,
     len |-> len, fields |-> fields]

SField(id, exported, embedded, tag, type) ==
    [Id |-> id, Exported |-> exported, Embedded |-> embedded, Tag |-> tag, type |-> type]

TypeNodes ==
    [ int      |-> TNode("Basic", "int", "", "", "", "", 0, <<>>),
      string   |-> TNode("Basic", "string", "", "", "", "", 0, <<>>),
      A        |-> TNode("Named", "p.A", "p", "A", "string", "", 0, <<>>),
      B        |-> TNode("Named", "p.B", "p", "B", "string", "", 0, <<>>),
      N        |-> TNode("Named", "p.N", "p", "N", "sN", "", 0, <<>>),
      sN       |-> TNode("Struct", "struct{Next *p.N; Tags []string; hidden int}", "", "", "", "", 0,
                         << SField("Next", TRUE, FALSE, "json:next", "ptrN"),
                            SField("Tags", TRUE, FALSE, "json:tags", "slString"),
                            SField("hidden", FALSE, FALSE, "", "int") >>),
      ptrN     |-> TNode("Pointer", "*p.N", "", "", "N", "", 0, <<>>),
      slString |-> TNode("Slice", "[]string", "", "", "string", "", 0, <<>>),
      X        |-> TNode("Named", "p.X", "p", "X", "sX", "", 0, <<>>),
      sX       |-> TNode("Struct", "struct{Self *p.X; C chan int}", "", "", "", "", 0,
                         << SField("Self", TRUE, FALSE, "json:self", "ptrX"),
                            SField("C", TRUE, FALSE, "", "chanInt") >>),
      ptrX     |-> TNode("Pointer", "*p.X", "", "", "X", "", 0, <<>>),
      chanInt  |-> TNode("Chan", "chan int", "", "", "int", "", 0, <<>>),
      M        |-> TNode("Named", "q.M", "q", "M", "mapM", "", 0, <<>>),
      mapM     |-> TNode("Map", "map[string][]q.M", "", "", "slM", "string", 0, <<>>),
      slM      |-> TNode("Slice", "[]q.M", "", "", "M", "", 0, <<>>),
      T        |-> TNode("Named", "q.T", "q", "T", "sT", "", 0, <<>>),
      sT       |-> TNode("Struct", "struct{Items [2]p.N; p.B; Err error}", "", "", "", "", 0,
                         << SField("Items", TRUE, FALSE, "json:items", "arrN"),
                            SField("B", TRUE, TRUE, "", "B"),
                            SField("Err", TRUE, FALSE, "json:err", "error") >>),
      arrN     |-> TNode("Array", "[2]p.N", "", "", "N", "", 2, <<>>),
      error    |-> TNode("Named", "error", "", "error", "iface", "", 0, <<>>),
      iface    |-> TNode("Interface", "interface{Error() string}", "", "", "", "", 0, <<>>),
      V        |-> TNode("Named", "bad.V", "bad", "V", "int", "", 0, <<>>) ]

NodeIds == DOMAIN TypeNodes

\* The nodes the walker hands to the resolver (Type(node, pkg).Result()).
RootNodes == {"A", "B", "ptrN", "X", "M", "T", "V"}

\* The packages a top-level call may be scoped to.
RootPackages == {"p", "q"}

\* Packages whose load fails (PackageManager.Get returns an error).
FailingPackages == {"bad"}

\* Constants declared with a named basic type: the enum scan of lines 214-313.
EnumValuesOf(pkg, name) ==
    IF pkg = "p" /\ name = "A" THEN <<"a1", "a2">> ELSE <<>>

\* The zero Result.
ZeroResult ==
    [Type |-> "", Name |-> "", Package |-> "", SliceType |-> "", ArrayType |-> "",
     ArrayLength |-> 0, MapKeyType |-> "", MapKeyPackage |-> "", MapValueType |-> "",
     MapValuePackage |-> "", MapValueSliceType |-> "", MapValueArrayType |-> "",
     MapValueArrayLength |-> 0, StructFields |-> <<>>, IsEmbedded |-> FALSE, Tag |-> "",
     EnumValues |-> <<>>, Doc |-> ""]

NoRet == [st |-> "none", res |-> ZeroResult, err |-> ""]
OkRet(r) == [st |-> "ok", res |-> r, err |-> ""]
ErrRet(e) == [st |-> "err", res |-> ZeroResult, err |-> e]
\* A panic on its way up: no Result and no error is returned.
PanicRet == [st |-> "panic", res |-> ZeroResult, err |-> ""]

\* A key that leaves named types out of the cache.
typeCacheKeyNoNamed(n) ==
    IF TypeNodes[n].kind = "Named" THEN "" ELSE "type:" \o TypeNodes[n].str

\* typeCacheKey: "named:<pkg>.<name>" for a named type, "type:<String()>" otherwise.
typeCacheKey(n) ==
    IF TypeNodes[n].kind = "Named"
    THEN "named:" \o (IF TypeNodes[n].pkg # "" THEN TypeNodes[n].pkg \o "." ELSE "")
                  \o TypeNodes[n].name
    ELSE "type:" \o TypeNodes[n].str

\* typeTraceLabel: "<pkg>.<name>" for a named type, String() otherwise.
typeTraceLabel(n) ==
    IF TypeNodes[n].kind = "Named"
    THEN (IF TypeNodes[n].pkg # "" THEN TypeNodes[n].pkg \o "." ELSE "") \o TypeNodes[n].name
    ELSE TypeNodes[n].str

\* Re-entry is never detected.
OnTraceNever(label) == FALSE

\* Lines 164-166: the label is already in progress.
OnTrace(label) ==
    label # "" /\ \E i \in 1..Len(typeTrace) : typeTrace[i] = label

\* typeNameAndPackage, lines 564-572.
typeNameAndPackage(n) ==
    IF TypeNodes[n].kind = "Named" THEN <<TypeNodes[n].name, TypeNodes[n].pkg>>
    ELSE <<TypeNodes[n].str, "">>

IsNamed(n) == TypeNodes[n].kind = "Named"

\* recursionResult, lines 503-562: the stub returned instead of recursing. Its
\* last case (line 554) answers every node that has a String() form.
recursionResult(n, pkg) ==
    LET t == TypeNodes[n] IN
    IF t.kind = "Named"
    THEN [ZeroResult EXCEPT !.Type = t.name, !.Package = t.pkg]
    ELSE IF t.kind = "Pointer" /\ IsNamed(t.elem)
    THEN [ZeroResult EXCEPT !.Type = TypeNodes[t.elem].name, !.Package = TypeNodes[t.elem].pkg]
    ELSE IF t.kind = "Slice" /\ IsNamed(t.elem)
    THEN [ZeroResult EXCEPT !.Type = "slice", !.SliceType = TypeNodes[t.elem].name,
                            !.Package = TypeNodes[t.elem].pkg]
    ELSE IF t.kind = "Array" /\ IsNamed(t.elem)
    THEN [ZeroResult EXCEPT !.Type = "array", !.ArrayType = TypeNodes[t.elem].name,
                            !.ArrayLength = t.len, !.Package = TypeNodes[t.elem].pkg]
    ELSE IF t.kind = "Map"
    THEN [ZeroResult EXCEPT !.Type = "map",
                            !.MapKeyType = typeNameAndPackage(t.key)[1],
                            !.MapKeyPackage = typeNameAndPackage(t.key)[2],
                            !.MapValueType = typeNameAndPackage(t.elem)[1],
                            !.Package = typeNameAndPackage(t.elem)[2]]
    ELSE IF t.str # ""
    THEN [ZeroResult EXCEPT !.Type = t.str, !.Package = pkg]
    ELSE [ZeroResult EXCEPT !.Type = "any", !.Package = pkg]

\* The sub-types one call of Result resolves, in order, each with the package
\* and the name its traverser is given: the underlying type of a named type
\* (lines 327-328, only with a sink and a known package), the element of a
\* pointer, slice or array, the key and element of a map, the types of the
\* exported fields of a struct (lines 398-412).
Child(n, pkg, name) == [node |-> n, pkg |-> pkg, name |-> name]

ExportedFields(n) == SelectSeq(TypeNodes[n].fields, LAMBDA f : f.Exported)

Children(n, pkg) ==
    LET t == TypeNodes[n] IN
    CASE t.kind = "Named" ->
            IF t.pkg # "" /\ shouldAddComponent
            THEN << Child(t.elem, t.pkg, t.name) >> ELSE <<>>
      [] t.kind \in {"Pointer", "Slice", "Array"} -> << Child(t.elem, pkg, "") >>
      [] t.kind = "Map" -> << Child(t.key, pkg, ""), Child(t.elem, pkg, "") >>
      [] t.kind = "Struct" ->
            [i \in 1..Len(ExportedFields(n)) |-> Child(ExportedFields(n)[i].type, pkg, "")]
      [] OTHER -> <<>>

\* FormatDoc of the type declaration's comment (TypeTraverser.Doc, lines 634-657).
DocOf(n) == IF TypeNodes[n].name = "N" THEN "doc of N" ELSE ""

\* The Result the switch of lines 205-462 builds from the sub-results acc.
BuildResult(n, pkg, name, acc) ==
    LET t == TypeNodes[n] IN
    CASE t.kind = "Basic" ->
            [ZeroResult EXCEPT !.Type = t.str, !.Package = pkg,
                               !.EnumValues = IF name # "" THEN EnumValuesOf(pkg, name) ELSE <<>>]
      [] t.kind = "Named" -> [ZeroResult EXCEPT !.Type = t.name, !.Package = t.pkg]
      [] t.kind = "Slice" ->
            [ZeroResult EXCEPT !.Type = "slice", !.SliceType = acc[1].Type,
                               !.Package = acc[1].Package]
      [] t.kind = "Array" ->
            [ZeroResult EXCEPT !.Type = "array", !.ArrayType = acc[1].Type,
                               !.ArrayLength = t.len, !.Package = acc[1].Package]
      [] t.kind = "Map" ->
            [ZeroResult EXCEPT !.Type = "map",
                               !.MapKeyType = acc[1].Type, !.MapKeyPackage = acc[1].Package,
                               !.MapValueType = acc[2].Type, !.MapValuePackage = acc[2].Package,
                               !.MapValueSliceType = acc[2].SliceType,
                               !.MapValueArrayType = acc[2].ArrayType,
                               !.MapValueArrayLength = acc[2].ArrayLength,
                               !.Package = acc[2].Package]
      [] t.kind = "Struct" ->
            [ZeroResult EXCEPT !.Type = "struct", !.Package = pkg,
                !.StructFields =
                    [i \in 1..Len(acc) |->
                        [Id |-> ExportedFields(n)[i].Id,
                         Res |-> [acc[i] EXCEPT !.IsEmbedded = ExportedFields(n)[i].Embedded,
                                                !.Tag = ExportedFields(n)[i].Tag]]]]
      [] t.kind = "Interface" -> [ZeroResult EXCEPT !.Type = "any", !.Package = pkg]
      [] OTHER -> ZeroResult

\* Lines 464-466: the name of the named type the node is the underlying type of.
WithName(r, name) == IF name # "" THEN [r EXCEPT !.Name = name] ELSE r

\* astra.ParseResultToField: the Field has the Result's shape, its Package the
\* package's path (the model's Results hold the path already).
ParseResultToField(r) == r

\* astra.AddComponent: Components is deduplicated by Package and Name.
AddComponent(components, field) ==
    IF \E i \in 1..Len(components) :
          components[i].Package = field.Package /\ components[i].Name = field.Name
    THEN components
    ELSE Append(components, field)

\* addComponent(s), part_000 lines 928-937.
addComponent(components, result) ==
    IF ParseResultToField(result).Package # ""
    THEN AddComponent(components, ParseResultToField(result))
    ELSE components

Frame(n, pkg, name) ==
    [node |-> n, pkg |-> pkg, name |-> name, pc |-> "enter", i |-> 1, acc |-> <<>>]

Top == frames[Len(frames)]
Busy == frames # <<>>

NoTop == [node |-> "", calls |-> 0, ret |-> NoRet, hadFirst |-> FALSE]

InitResolver ==
    /\ typeResultCache = <<>>
    /\ typeTrace = <<>>
    /\ shouldAddComponent \in BOOLEAN
    /\ typeTraceLimit \in {0, TraceLimit}
    /\ frames = <<>>
    /\ ret = NoRet
    /\ Components = <<>>
    /\ first = [n \in RootNodes |-> NoRet]
    /\ top = NoTop

\* A Result that names a named type of the graph by its name and package.
IsReference(r) ==
    r.Package # "" /\ \E n \in NodeIds : IsNamed(n) /\ TypeNodes[n].name = r.Type
                                          /\ TypeNodes[n].pkg = r.Package

\* The call on top of the stack returns r to its caller; the outermost call
\* returns to the walker, and the history records what it returned.
Return(r) ==
    /\ frames' = SubSeq(frames, 1, Len(frames) - 1)
    /\ ret' = r
    /\ IF Len(frames) = 1
       THEN /\ top' = [top EXCEPT !.ret = r]
            /\ first' = IF first[Top.node].st = "none"
                        THEN [first EXCEPT ![Top.node] = r] ELSE first
       ELSE UNCHANGED <<top, first>>
    /\ UNCHANGED notResolverVars

CacheWrite(key, r) ==
    IF key # ""
    THEN [k \in DOMAIN typeResultCache \cup {key} |->
             IF k = key THEN r ELSE typeResultCache[k]]
    ELSE typeResultCache

\* The walker asks for the Result of a type: Type(node, pkg).Result().
Resolve(n, pkg) ==
    /\ ~Busy
    /\ frames' = << Frame(n, pkg, "") >>
    /\ ret' = NoRet
    /\ top' = [node |-> n, calls |-> 0, ret |-> NoRet, hadFirst |-> first[n].st # "none"]
    /\ UNCHANGED <<typeResultCache, typeTrace, shouldAddComponent, typeTraceLimit,
                   Components, first>>
    /\ UNCHANGED notResolverVars

\* Lines 156-161: the call is answered from the cache.
CacheHit ==
    /\ Busy /\ Top.pc = "enter"
    /\ typeCacheKey(Top.node) # ""
    /\ typeCacheKey(Top.node) \in DOMAIN typeResultCache
    /\ Return(OkRet(typeResultCache[typeCacheKey(Top.node)]))
    /\ UNCHANGED <<typeResultCache, typeTrace, shouldAddComponent, typeTraceLimit, Components>>

CacheMiss ==
    typeCacheKey(Top.node) = "" \/ typeCacheKey(Top.node) \notin DOMAIN typeResultCache

\* Lines 164-180: the label is in progress; the stub is cached and returned.
Reentry ==
    /\ Busy /\ Top.pc = "enter"
    /\ CacheMiss
    /\ OnTrace(typeTraceLabel(Top.node))
    /\ typeResultCache' = CacheWrite(typeCacheKey(Top.node), recursionResult(Top.node, Top.pkg))
    /\ Return(OkRet(recursionResult(Top.node, Top.pkg)))
    /\ UNCHANGED <<typeTrace, shouldAddComponent, typeTraceLimit, Components>>

\* Lines 182-195: the trace has reached the limit; the stub is cached and returned.
DepthLimit ==
    /\ Busy /\ Top.pc = "enter"
    /\ CacheMiss
    /\ ~OnTrace(typeTraceLabel(Top.node))
    /\ typeTraceLimit > 0 /\ Len(typeTrace) >= typeTraceLimit
    /\ typeResultCache' = CacheWrite(typeCacheKey(Top.node), recursionResult(Top.node, Top.pkg))
    /\ Return(OkRet(recursionResult(Top.node, Top.pkg)))
    /\ UNCHANGED <<typeTrace, shouldAddComponent, typeTraceLimit, Components>>

\* Lines 196-201: the label is pushed (and popped when the call ends).
PushTrace ==
    /\ Busy /\ Top.pc = "enter"
    /\ CacheMiss
    /\ ~OnTrace(typeTraceLabel(Top.node))
    /\ ~(typeTraceLimit > 0 /\ Len(typeTrace) >= typeTraceLimit)
    /\ typeTrace' = Append(typeTrace, typeTraceLabel(Top.node))
    /\ frames' = [frames EXCEPT ![Len(frames)].pc = "body"]
    /\ UNCHANGED <<typeResultCache, shouldAddComponent, typeTraceLimit, ret, Components,
                   first, top>>
    /\ UNCHANGED notResolverVars

\* A trace that deferred calls leave alone.
PopTraceSkipped == typeTrace

PopTrace == SubSeq(typeTrace, 1, Len(typeTrace) - 1)

\* Lines 129-154 and 197-201: a panic leaves the call on top of the stack. The
\* deferred pop runs, then the deferred recover logs and raises the panic again
\* in the caller; out of the outermost call it reaches the walker.
Rethrow ==
    /\ typeTrace' = PopTrace
    /\ frames' = SubSeq(frames, 1, Len(frames) - 1)
    /\ ret' = PanicRet
    /\ top' = IF Len(frames) = 1 THEN [top EXCEPT !.ret = PanicRet] ELSE top
    /\ UNCHANGED <<typeResultCache, shouldAddComponent, typeTraceLimit, Components, first>>
    /\ UNCHANGED notResolverVars

\* Lines 320-325: the named type's package does not load.
PackageFails ==
    /\ Busy /\ Top.pc = "body"
    /\ IsNamed(Top.node) /\ TypeNodes[Top.node].pkg \in FailingPackages
    /\ typeTrace' = PopTrace
    /\ Return(ErrRet("package load"))
    /\ UNCHANGED <<typeResultCache, shouldAddComponent, typeTraceLimit, Components>>

PackageLoads == ~(IsNamed(Top.node) /\ TypeNodes[Top.node].pkg \in FailingPackages)

\* A recursive call Type(child, pkg).Result() (lines 328, 350, 352, 363, 375,
\* 380, 412).
CallChild ==
    /\ Busy /\ Top.pc = "body"
    /\ PackageLoads
    /\ Top.i <= Len(Children(Top.node, Top.pkg))
    /\ Len(frames) < MaxFrames
    /\ LET c == Children(Top.node, Top.pkg)[Top.i] IN
       frames' = Append([frames EXCEPT ![Len(frames)].pc = "wait"], Frame(c.node, c.pkg, c.name))
    /\ ret' = NoRet
    /\ top' = [top EXCEPT !.calls = @ + 1]
    /\ UNCHANGED <<typeResultCache, typeTrace, shouldAddComponent, typeTraceLimit,
                   Components, first>>
    /\ UNCHANGED notResolverVars

\* The recursive call returned a Result: it is kept and the body goes on.
ChildReturned ==
    /\ Busy /\ Top.pc = "wait"
    /\ ret.st = "ok"
    /\ frames' = [frames EXCEPT ![Len(frames)].pc = "body",
                                ![Len(frames)].i = @ + 1,
                                ![Len(frames)].acc = Append(@, ret.res)]
    /\ ret' = NoRet
    /\ UNCHANGED <<typeResultCache, typeTrace, shouldAddComponent, typeTraceLimit,
                   Components, first, top>>
    /\ UNCHANGED notResolverVars

\* The recursive call returned an error: Result returns it (lines 329-331,
\* 353-355, 364-366, 376-383, 413-415), and the deferred pop runs.
ChildFailed ==
    /\ Busy /\ Top.pc = "wait"
    /\ ret.st = "err"
    /\ typeTrace' = PopTrace
    /\ Return(ret)
    /\ UNCHANGED <<typeResultCache, shouldAddComponent, typeTraceLimit, Components>>

AllChildrenDone == Top.i > Len(Children(Top.node, Top.pkg))

\* Line 350: a pointer returns its element's Result as it is, past the cache
\* write of line 470.
FinishPointer ==
    /\ Busy /\ Top.pc = "body"
    /\ TypeNodes[Top.node].kind = "Pointer"
    /\ AllChildrenDone
    /\ typeTrace' = PopTrace
    /\ Return(OkRet(Top.acc[1]))
    /\ UNCHANGED <<typeResultCache, shouldAddComponent, typeTraceLimit, Components>>

\* Lines 315-348 and 464-472: a named type hands its underlying Result, with
\* the declaration's doc, to the sink, and returns the reference, cached.
FinishNamed ==
    /\ Busy /\ Top.pc = "body"
    /\ IsNamed(Top.node)
    /\ PackageLoads
    /\ AllChildrenDone
    /\ Components' = IF Len(Top.acc) > 0
                     THEN addComponent(Components, [Top.acc[1] EXCEPT !.Doc = DocOf(Top.node)])
                     ELSE Components
    /\ LET r == WithName(BuildResult(Top.node, Top.pkg, Top.name, Top.acc), Top.name) IN
         /\ typeResultCache' = CacheWrite(typeCacheKey(Top.node), r)
         /\ Return(OkRet(r))
    /\ typeTrace' = PopTrace
    /\ UNCHANGED <<shouldAddComponent, typeTraceLimit>>

\* Lines 206-213, 351-462 and 464-472: every other kind builds its Result,
\* takes the name it was given, is cached and returned.
FinishOther ==
    /\ Busy /\ Top.pc = "body"
    /\ TypeNodes[Top.node].kind \in {"Basic", "Slice", "Array", "Map", "Struct", "Interface"}
    /\ AllChildrenDone
    /\ LET r == WithName(BuildResult(Top.node, Top.pkg, Top.name, Top.acc), Top.name) IN
         /\ typeResultCache' = CacheWrite(typeCacheKey(Top.node), r)
         /\ Return(OkRet(r))
    /\ typeTrace' = PopTrace
    /\ UNCHANGED <<shouldAddComponent, typeTraceLimit, Components>>

\* The components on which the sink of the model may panic.
SinkPanicsOn == {"B"}

\* Line 338: the component sink, a function of the caller, panics.
SinkPanics ==
    /\ Busy /\ Top.pc = "body"
    /\ IsNamed(Top.node) /\ TypeNodes[Top.node].name \in SinkPanicsOn
    /\ PackageLoads
    /\ AllChildrenDone
    /\ shouldAddComponent /\ Len(Top.acc) > 0
    /\ Rethrow

\* The recursive call panicked: the panic passes through this call too.
ChildPanicked ==
    /\ Busy /\ Top.pc = "wait"
    /\ ret.st = "panic"
    /\ Rethrow

\* Lines 468-475: a node of no handled kind (a channel, a signature) leaves
\* result.Type empty: ErrInvalidNodeType.
InvalidNode ==
    /\ Busy /\ Top.pc = "body"
    /\ TypeNodes[Top.node].kind = "Chan"
    /\ typeTrace' = PopTrace
    /\ Return(ErrRet("ErrInvalidNodeType"))
    /\ UNCHANGED <<typeResultCache, shouldAddComponent, typeTraceLimit, Components>>

\* One step of a running TypeTraverser.Result.
Result ==
    \/ CacheHit
    \/ Reentry
    \/ DepthLimit
    \/ PushTrace
    \/ PackageFails
    \/ CallChild
    \/ ChildReturned
    \/ ChildFailed
    \/ FinishPointer
    \/ FinishNamed
    \/ FinishOther
    \/ InvalidNode
    \/ SinkPanics
    \/ ChildPanicked

NextResolver ==
    \/ \E n \in RootNodes, pkg \in RootPackages : Resolve(n, pkg)
    \/ Result


HasComponent(pkg, name) ==
    \E i \in 1..Len(Components) : Components[i].Package = pkg /\ Components[i].Name = name

\* Every Result the resolver has returned was written to the cache on its way
\* out, or is the cached Result of the element of a pointer; the last one is
\* also in ret.
ProducedResults ==
    {typeResultCache[k] : k \in DOMAIN typeResultCache}
        \cup (IF top.ret.st = "ok" THEN {top.ret.res} ELSE {})

\* C2: with the component sink registered, once the outermost Result call has
\* returned, every reference-shaped Result produced (Type a named type's name,
\* Package its known package) has an entry with the same Package and Name in
\* Components.
C2_EveryReferenceHasComponent ==
    (~Busy /\ shouldAddComponent) =>
        \A r \in ProducedResults : IsReference(r) => HasComponent(r.Package, r.Type)

\* C3: TypeTraverser.Result terminates on every type graph, cyclic ones
\* included, with and without a depth limit: a running call always comes back
\* to the walker, and its stack never grows to the bound of the model.
C3_ResultTerminates ==
    /\ [](Len(frames) < MaxFrames)
    /\ (Busy ~> ~Busy)

\* The self-referential map type q.M has been resolved with no depth limit, by
\* way of the re-entry check.
C3_Witness_CycleResolvedWithoutLimit ==
    /\ ~Busy
    /\ typeTraceLimit = 0
    /\ top.node = "M" /\ top.ret.st = "ok" /\ top.calls >= 3
    /\ typeResultCache["type:[]q.M"].SliceType = "M"

StubTarget(n) ==
    LET t == TypeNodes[n] IN
    IF t.kind = "Named" THEN n
    ELSE IF t.kind \in {"Pointer", "Slice", "Array", "Map"} /\ IsNamed(t.elem) THEN t.elem
    ELSE ""

\* A Result that carries no more than the name and the package of named type m
\* (under Type, or under the element entry of a slice, array or map).
RefersOnlyTo(r, m) ==
    /\ TypeNodes[m].name \in {r.Type, r.SliceType, r.ArrayType, r.MapValueType}
    /\ r.Package = TypeNodes[m].pkg
    /\ r.Name = "" /\ r.StructFields = <<>> /\ r.EnumValues = <<>>

\* The Result {Type: "any"}, whatever its package.
IsAny(r) == [r EXCEPT !.Package = ""] = [ZeroResult EXCEPT !.Type = "any"]

\* C17: a call of Result that finds its label on the trace, or the trace at
\* the limit, returns at once, resolving no sub-type: a Result that refers to
\* the named type when the node is one or a pointer, slice, array or map of
\* one, and {Type: "any"} for every other node.
C17_StubAtReentryOrLimit ==
    [][(Reentry \/ DepthLimit) =>
          /\ Len(frames') = Len(frames) - 1
          /\ typeTrace' = typeTrace
          /\ ret'.st = "ok"
          /\ IF StubTarget(Top.node) # ""
             THEN RefersOnlyTo(ret'.res, StubTarget(Top.node))
             ELSE IsAny(ret'.res)]_vars

\* A named type is about to hand the Result of its underlying type to the
\* component sink (lines 327-342).
HandsOverComponent ==
    /\ Busy /\ Top.pc = "body"
    /\ IsNamed(Top.node) /\ PackageLoads
    /\ AllChildrenDone /\ Len(Top.acc) > 0

\* C20: the component handed to the sink for a named type carries the name of
\* that type, the enum values declared with it, and the exported fields of
\* its own underlying struct, whatever was resolved earlier in the session.
C20_ComponentOfItsOwnType ==
    HandsOverComponent =>
        LET t == TypeNodes[Top.node]
            c == Top.acc[1]
        IN /\ c.Name = t.name
           /\ c.EnumValues = IF TypeNodes[t.elem].kind = "Basic"
                             THEN EnumValuesOf(t.pkg, t.name) ELSE <<>>
           /\ TypeNodes[t.elem].kind = "Struct" =>
                 [i \in 1..Len(c.StructFields) |-> c.StructFields[i].Id]
                     = [i \in 1..Len(ExportedFields(t.elem)) |-> ExportedFields(t.elem)[i].Id]

\* C21: a call of Result that returns a stub (re-entry, depth limit) or an
\* error writes no entry to the result cache.
C21_CacheWrittenOnlyOnSuccess ==
    [][(Reentry \/ DepthLimit \/ PackageFails \/ ChildFailed \/ InvalidNode)
          => typeResultCache' = typeResultCache]_vars

\* The labels of the calls in progress that have pushed theirs, outermost first.
LabelsInProgress ==
    LET pushed == SelectSeq(frames, LAMBDA f : f.pc # "enter") IN
    [i \in 1..Len(pushed) |-> typeTraceLabel(pushed[i].node)]

\* C27: the trace holds the labels of the calls in progress and nothing else:
\* it is empty when no resolution is in progress, whichever way the last one
\* ended, and is no longer than the depth limit when one is set.
C27_TraceBalanced ==
    /\ typeTrace = LabelsInProgress
    /\ ~Busy => typeTrace = <<>>
    /\ typeTraceLimit > 0 => Len(typeTrace) <= typeTraceLimit

\* A panic three calls deep has reached the walker, under a depth limit.
C27_Witness_PanicUnwound ==
    /\ ~Busy /\ top.ret.st = "panic" /\ top.node = "T"
    /\ typeTraceLimit > 0
    /\ typeTrace = <<>>

(***************************************************************************)
(*                     HANDLER WALKER AND PARSEROUTES                      *)
(***************************************************************************)

\* Bounds of the walker model: the routes of a service, and the depth at
\* which the runtime's stack is taken to be exhausted.
MaxRoutes == 2
MaxWalkDepth == 5

\* astra.Field, astra.Param, astra.BodyParam and astra.ReturnType, as the
\* walker fills them.
WField(type, pkg) == [Type |-> type, Package |-> pkg]

WParam(name, field, isBound, isArray, isMap) ==
    [Name |-> name, Field |-> field, IsBound |-> isBound, IsArray |-> isArray, IsMap |-> isMap]

WBodyParam(name, contentType, field, isBound, isArray, isMap) ==
    [Name |-> name, ContentType |-> contentType, Field |-> field, IsBound |-> isBound,
     IsArray |-> isArray, IsMap |-> isMap]

WReturnType(statusCode, contentType, field) ==
    [StatusCode |-> statusCode, ContentType |-> contentType, Field |-> field]

\* The AST nodes ast.Inspect visits, in preorder; sub is the number of nodes
\* below a node, which Inspect leaves out when the callback returns false.
\*   k        "other" for a node that is no call expression, "call" for one
\*   skip     shouldSkipCall holds
\*   custom   what the custom recognisers answer: "none", "route" or "err"
\*   ctxArg   the context identifier is one of the arguments
\*   callee   the function Function() resolves the call to ("" when it fails)
\*   method   the method of the context the call is ("" when Type() fails,
\*            "-" when the callee is no method of the context)
\*   build    "ok", or "err" when a slot of the builder fails
\*   code, arg, pkg   the status code, and the name or the type (with its
\*            package) that the slots resolve to
ANode(k, sub, skip, custom, ctxArg, callee, method, build, code, arg, pkg) ==
    [k |-> k, sub |-> sub, skip |-> skip, custom |-> custom, ctxArg |-> ctxArg,
     callee |-> callee, method |-> method, build |-> build, code |-> code, arg |-> arg,
     pkg |-> pkg]

Other(sub) == ANode("other", sub, FALSE, "none", FALSE, "", "", "ok", 0, "", "")
Skipped(sub) == ANode("call", sub, TRUE, "none", TRUE, "translate", "", "ok", 0, "", "")
CtxMethodWithCtx(method, code, arg, pkg, sub) ==
    ANode("call", sub, FALSE, "none", TRUE, "", method, "ok", code, arg, pkg)
Custom(outcome, sub) == ANode("call", sub, FALSE, outcome, TRUE, "respond", "", "ok", 0, "", "")
Helper(callee, sub) == ANode("call", sub, FALSE, "none", TRUE, callee, "", "ok", 0, "", "")
PlainCall(method, sub) == ANode("call", sub, FALSE, "none", FALSE, "", method, "ok", 0, "", "")
Method(method, build, code, arg, pkg, sub) ==
    ANode("call", sub, FALSE, "none", FALSE, "", method, build, code, arg, pkg)

\* A function declaration: its file, the name of its context parameter (""
\* when it has none), whether it has a body, and the nodes of the body.
Func(file, ctxName, hasBody, doc, body) ==
    [file |-> file, ctxName |-> ctxName, hasBody |-> hasBody, doc |-> doc, body |-> body]

\* The handlers and helpers of the analysed program.
\*   func Ping(c)       { }                                   no response call
\*   func GetContact(c) { c.Query("q"); c.Query("q"); c.JSON(200, p.N{}) }
\*   func Create(c)     { c.ShouldBindJSON(&p.A{}); c.Header("X-Id", id);
\*                        c.GetHeader("X-Tok"); c.Bind(&q.T{}); c.PostForm("f");
\*                        c.FormFile("up"); c.String(201, "ok") }
\*   func Tail(c)       { c.Header(name, v); c.Status(204) }   name is no literal
\*   func Mixed(c)      { i18nService.Translate(c, ..); audit(c); c.JSON(203, c);
\*                        log.Print(..); unknown(c); quiet(c); c.Next(); respond(c) }
\*   func translate(c)  { c.String(299, "..") }     what Translate resolves to
\*   func Retry(c)      { retry(c) };  func retry(c) { c.Header(..); retry(c) }
\*   func Ping2(c)      { ping(c) };   ping calls pong, pong calls ping
\*   func Nested(c)     { outer(c) }
\*   func outer(c)      { c.Query("o"); fails(c); inner(c) }
\*   func inner(c)      { c.JSON(202, p.B{}) }
\*   func fails(c)      { c.JSON(code, v) }         code is no integer constant
\*   func Broken(c)     { c.JSON(code, v) }         code is no integer constant
\*   func BrokenMid(c)  { c.JSON(code, v); _ = 0 }
\*   func CustomErr(c)  { audit2(c) }               the recogniser fails on it
\*   func NoCtx()       { },   func NoBody(c)       declared without a body
Funcs ==
    [ Ping       |-> Func("main.go", "c", TRUE, "", << Other(0) >>),
      GetContact |-> Func("main.go", "c", TRUE, "GetContact returns a contact",
                          << Method("Query", "ok", 0, "q", "", 1), Other(0),
                             Method("Query", "ok", 0, "q", "", 1), Other(0),
                             Method("JSON", "ok", 200, "N", "p", 1), Other(0) >>),
      Create     |-> Func("main.go", "c", TRUE, "",
                          << Method("ShouldBindJSON", "ok", 0, "A", "p", 1), Other(0),
                             Method("Header", "ok", 0, "X-Id", "", 1), Other(0),
                             Method("GetHeader", "ok", 0, "X-Tok", "", 0),
                             Method("Bind", "ok", 0, "T", "q", 0),
                             Method("PostForm", "ok", 0, "f", "", 0),
                             Method("FormFile", "ok", 0, "up", "", 0),
                             Method("String", "ok", 201, "", "", 1), Other(0) >>),
      Tail       |-> Func("main.go", "c", TRUE, "",
                          << Method("Header", "err", 0, "", "", 1), Other(0),
                             Method("Status", "ok", 204, "", "", 0) >>),
      Mixed      |-> Func("main.go", "ctx", TRUE, "",
                          << Skipped(1), Other(0),
                             Custom("route", 1), Other(0),
                             CtxMethodWithCtx("JSON", 203, "Context", "gin", 0),
                             PlainCall("", 0),
                             PlainCall("-", 0),
                             Helper("", 1), Other(0),
                             Helper("quiet", 0),
                             Method("Next", "ok", 0, "", "", 0),
                             Helper("respond", 1), Other(0) >>),
      translate  |-> Func("i18n.go", "c", TRUE, "",
                          << Method("String", "ok", 299, "", "", 0) >>),
      quiet      |-> Func("helpers.go", "c", TRUE, "", << Other(0) >>),
      respond    |-> Func("helpers.go", "c", TRUE, "",
                          << Method("JSON", "ok", 201, "A", "p", 1), Other(0) >>),
      Retry      |-> Func("main.go", "c", TRUE, "", << Helper("retry", 1), Other(0) >>),
      retry      |-> Func("helpers.go", "c", TRUE, "",
                          << Method("Header", "ok", 0, "Retry-After", "", 0),
                             Helper("retry", 1), Other(0) >>),
      Ping2      |-> Func("main.go", "c", TRUE, "", << Helper("ping", 0) >>),
      ping       |-> Func("helpers.go", "c", TRUE, "", << Helper("pong", 0) >>),
      pong       |-> Func("pong.go", "c", TRUE, "", << Helper("ping", 0) >>),
      Nested     |-> Func("main.go", "c", TRUE, "", << Helper("outer", 1), Other(0) >>),
      outer      |-> Func("helpers.go", "c", TRUE, "",
                          << Method("Query", "ok", 0, "o", "", 1), Other(0),
                             Helper("fails", 1), Other(0),
                             Helper("inner", 1), Other(0) >>),
      fails      |-> Func("fails.go", "c", TRUE, "",
                          << Method("JSON", "err", 0, "", "", 1), Other(0) >>),
      inner      |-> Func("inner.go", "c", TRUE, "",
                          << Method("JSON", "ok", 202, "B", "p", 1), Other(0) >>),
      Broken     |-> Func("main.go", "c", TRUE, "",
                          << Method("JSON", "err", 0, "", "", 1), Other(0) >>),
      BrokenMid  |-> Func("main.go", "c", TRUE, "",
                          << Method("JSON", "err", 0, "", "", 1), Other(0), Other(0) >>),
      CustomErr  |-> Func("main.go", "c", TRUE, "", << Custom("err", 1), Other(0) >>),
      NoCtx      |-> Func("main.go", "", TRUE, "", << Other(0) >>),
      NoBody     |-> Func("main.go", "c", FALSE, "", <<>>) ]

FuncNames == DOMAIN Funcs

\* astra.Route as CreateRoutes leaves it: File is the handler's file, given
\* by its path segments.
NewRoute(path, method, file, handler) ==
    [Path |-> path, Method |-> method, File |-> file, Handler |-> handler, Doc |-> "",
     ReturnTypes |-> <<>>, QueryParams |-> <<>>, Body |-> <<>>, RequestHeaders |-> <<>>,
     ResponseHeaders |-> <<>>]

\* The routes a service may hold.
RouteTemplates ==
    { NewRoute("/ping", "GET", <<"main.go">>, "Ping"),
      NewRoute("/contacts/:id", "GET", <<"handlers", "main.go">>, "GetContact"),
      NewRoute("/contacts", "POST", <<"main.go">>, "Create"),
      NewRoute("/mixed", "GET", <<>>, "Mixed"),
      NewRoute("/tail", "GET", <<"main.go">>, "Tail"),
      NewRoute("/retry", "GET", <<"main.go">>, "Retry"),
      NewRoute("/ping2", "GET", <<"main.go">>, "Ping2"),
      NewRoute("/nested", "GET", <<"main.go">>, "Nested"),
      NewRoute("/broken", "GET", <<"main.go">>, "Broken"),
      NewRoute("/brokenmid", "GET", <<"vendors", "main.go">>, "BrokenMid"),
      NewRoute("/customerr", "GET", <<"main.go">>, "CustomErr"),
      NewRoute("/noctx", "GET", <<"main.go">>, "NoCtx"),
      NewRoute("/nobody", "GET", <<"main.go">>, "NoBody"),
      NewRoute("/gone", "GET", <<"main.go">>, "Gone"),
      NewRoute("/v/ping", "GET", <<"vendor", "lib", "h.go">>, "Ping"),
      NewRoute("/v/broken", "GET", <<"vendor", "lib", "h.go">>, "Broken"),
      NewRoute("/v/noctx", "GET", <<"vendor", "lib", "h.go">>, "NoCtx") }

\* shouldSkipRouteParse with no route ever skipped.
shouldSkipRouteParseNever(r) == FALSE

\* shouldSkipRouteParse: the file, with forward slashes, starts with "vendor/".
shouldSkipRouteParse(r) ==
    /\ r.File # <<>>
    /\ Len(r.File) >= 2 /\ r.File[1] = "vendor"

\* The fallback left out: ReturnTypes stays as the walk left it.
WithoutFallback(returnTypes) == returnTypes

\* Lines 840-848: the synthetic ReturnType of a route with no response.
SyntheticReturnType == WReturnType(200, "application/json", WField("struct", ""))

\* astra.AddReturnType: the ReturnType is appended.
AddReturnType(returnTypes, rt) == Append(returnTypes, rt)

\* The synthetic ReturnType appended whatever the route holds.
WithFallbackAlways(returnTypes) == AddReturnType(returnTypes, SyntheticReturnType)

WithFallback(returnTypes) ==
    IF Len(returnTypes) = 0 THEN AddReturnType(returnTypes, SyntheticReturnType)
    ELSE returnTypes

\* astra.BindingTagToContentTypes, for the form, json, xml and yaml tags in
\* the order of line 487.
BoundBodyContentTypes ==
    << "application/x-www-form-urlencoded", "application/json", "application/xml",
       "application/yaml" >>

ReturnTypeMethods ==
    {"JSON", "XML", "YAML", "ProtoBuf", "Data", "String", "Status", "AbortWithError",
     "AbortWithStatus", "AbortWithStatusJSON"}

KnownMethods ==
    ReturnTypeMethods \cup
    {"GetQuery", "Query", "GetQueryArray", "QueryArray", "GetQueryMap", "QueryMap",
     "ShouldBindQuery", "BindQuery", "ShouldBind", "Bind", "ShouldBindJSON", "BindJSON",
     "ShouldBindXML", "BindXML", "ShouldBindYAML", "BindYAML", "GetPostForm", "PostForm",
     "GetPostFormArray", "PostFormArray", "GetPostFormMap", "PostFormMap", "FormFile",
     "GetHeader", "ShouldBindHeader", "BindHeader", "Header"}

\* The cases of the switch that do not test the error of Build (lines 367-386
\* and 694-711).
UncheckedMethods == {"Status", "Header"}

\* The ReturnType a response method records (lines 197-386 and 712-793).
ReturnTypeOf(nd) ==
    LET m == nd.method IN
    CASE m \in {"JSON", "AbortWithStatusJSON"} ->
            WReturnType(nd.code, "application/json", WField(nd.arg, nd.pkg))
      [] m = "XML" -> WReturnType(nd.code, "application/xml", WField(nd.arg, nd.pkg))
      [] m = "YAML" -> WReturnType(nd.code, "application/yaml", WField(nd.arg, nd.pkg))
      [] m = "ProtoBuf" -> WReturnType(nd.code, "application/protobuf", WField(nd.arg, nd.pkg))
      [] m = "Data" -> WReturnType(nd.code, "", WField(nd.arg, nd.pkg))
      [] m = "String" -> WReturnType(nd.code, "text/plain", WField("string", ""))
      [] OTHER -> WReturnType(nd.code, "", WField("nil", ""))

\* The function given to Build, leaving the route as it is.
ExtractDropped(r, nd) == r

\* What the function given to Build does to the route (lines 197-793).
Extract(r, nd) ==
    LET m == nd.method
        str == WField("string", "")
        bound == WField(nd.arg, nd.pkg)
    IN
    CASE m \in ReturnTypeMethods ->
            [r EXCEPT !.ReturnTypes = AddReturnType(@, ReturnTypeOf(nd))]
      [] m \in {"GetQuery", "Query"} ->
            [r EXCEPT !.QueryParams = Append(@, WParam(nd.arg, str, FALSE, FALSE, FALSE))]
      [] m \in {"GetQueryArray", "QueryArray"} ->
            [r EXCEPT !.QueryParams = Append(@, WParam(nd.arg, str, FALSE, TRUE, FALSE))]
      [] m \in {"GetQueryMap", "QueryMap"} ->
            [r EXCEPT !.QueryParams = Append(@, WParam(nd.arg, str, FALSE, FALSE, TRUE))]
      [] m \in {"ShouldBindQuery", "BindQuery"} ->
            [r EXCEPT !.QueryParams = Append(@, WParam("", bound, TRUE, FALSE, FALSE))]
      [] m \in {"ShouldBind", "Bind"} ->
            [r EXCEPT !.QueryParams = Append(@, WParam("", bound, TRUE, FALSE, FALSE)),
                      !.Body = @ \o [i \in 1..Len(BoundBodyContentTypes) |->
                                       WBodyParam("", BoundBodyContentTypes[i], bound,
                                                  TRUE, FALSE, FALSE)]]
      [] m \in {"ShouldBindJSON", "BindJSON"} ->
            [r EXCEPT !.Body = Append(@, WBodyParam("", "application/json", bound,
                                                    TRUE, FALSE, FALSE))]
      [] m \in {"ShouldBindXML", "BindXML"} ->
            [r EXCEPT !.Body = Append(@, WBodyParam("", "application/xml", bound,
                                                    TRUE, FALSE, FALSE))]
      [] m \in {"ShouldBindYAML", "BindYAML"} ->
            [r EXCEPT !.Body = Append(@, WBodyParam("", "application/yaml", bound,
                                                    TRUE, FALSE, FALSE))]
      [] m \in {"GetPostForm", "PostForm"} ->
            [r EXCEPT !.Body = Append(@, WBodyParam(nd.arg, "application/x-www-form-urlencoded",
                                                    str, FALSE, FALSE, FALSE))]
      [] m \in {"GetPostFormArray", "PostFormArray"} ->
            [r EXCEPT !.Body = Append(@, WBodyParam(nd.arg, "application/x-www-form-urlencoded",
                                                    str, FALSE, TRUE, FALSE))]
      [] m \in {"GetPostFormMap", "PostFormMap"} ->
            [r EXCEPT !.Body = Append(@, WBodyParam(nd.arg, "application/x-www-form-urlencoded",
                                                    str, FALSE, FALSE, TRUE))]
      [] m = "FormFile" ->
            [r EXCEPT !.Body = Append(@, WBodyParam(nd.arg, "multipart/form-data",
                                                    WField("file", ""), FALSE, FALSE, FALSE))]
      [] m = "GetHeader" ->
            [r EXCEPT !.RequestHeaders = Append(@, WParam(nd.arg, str, FALSE, FALSE, FALSE))]
      [] m \in {"ShouldBindHeader", "BindHeader"} ->
            [r EXCEPT !.RequestHeaders = Append(@, WParam("", bound, TRUE, FALSE, FALSE))]
      [] m = "Header" ->
            [r EXCEPT !.ResponseHeaders = Append(@, WParam(nd.arg, str, FALSE, FALSE, FALSE))]
      [] OTHER -> r

WFrame(fn, level, file, currRoute) ==
    [fn |-> fn, i |-> 1, level |-> level, err |-> "", currRoute |-> currRoute, file |-> file,
     pc |-> "entry"]

WTop == wstack[Len(wstack)]
Walking == parseState = "running" /\ wstack # <<>>
WNode == Funcs[WTop.fn].body[WTop.i]
AtNode == Walking /\ WTop.pc = "inspect" /\ WTop.i <= Len(Funcs[WTop.fn].body)
AtCall == AtNode /\ WNode.k = "call" /\ ~WNode.skip

\* No return value is waiting to be taken by a caller.
NoReturn == "-"

\* The services ParseRoutes may be run on: one to MaxRoutes routes.
RouteLists ==
    UNION { [1..n -> RouteTemplates] : n \in 1..MaxRoutes }

InitWalker ==
    /\ Routes \in RouteLists
    /\ routeIdx = 1
    /\ route = NewRoute("", "", <<>>, "")
    /\ wstack = <<>>
    /\ wret = NoReturn
    /\ activeFile = ""
    /\ parseState = "running"
    /\ skippedRoutes = {}

\* The callback returns true: Inspect goes on with the next node in preorder.
\* It returns false: Inspect leaves out the nodes below this one.
InspectNext(descend, err, currRoute) ==
    wstack' = [wstack EXCEPT ![Len(wstack)].i = IF descend THEN @ + 1 ELSE @ + 1 + WNode.sub,
                             ![Len(wstack)].err = err,
                             ![Len(wstack)].currRoute = currRoute]

\* parseFunction returns err to its caller.
WReturn(err) ==
    /\ wstack' = SubSeq(wstack, 1, Len(wstack) - 1)
    /\ wret' = err

\* ParseRoutes, lines 17-21: the next route of the loop is copied and handed
\* to parseRoute, which walks its handler at depth 0 ...
ParseRoute ==
    /\ parseState = "running" /\ ~Walking /\ wret = NoReturn
    /\ routeIdx <= Len(Routes)
    /\ Routes[routeIdx].Handler \in FuncNames
    /\ route' = Routes[routeIdx]
    /\ wstack' = << WFrame(Routes[routeIdx].Handler, 0, Funcs[Routes[routeIdx].Handler].file,
                          "route") >>
    /\ UNCHANGED <<Routes, routeIdx, wret, activeFile, parseState, skippedRoutes>>
    /\ UNCHANGED notWalkerVars

\* ... or fails to find the handler's declaration.
ParseRouteNoHandler ==
    /\ parseState = "running" /\ ~Walking /\ wret = NoReturn
    /\ routeIdx <= Len(Routes)
    /\ Routes[routeIdx].Handler \notin FuncNames
    /\ route' = Routes[routeIdx]
    /\ wret' = "handler not found"
    /\ UNCHANGED <<Routes, routeIdx, wstack, activeFile, parseState, skippedRoutes>>
    /\ UNCHANGED notWalkerVars

\* Lines 22-26: parseRoute failed on a vendor route; the loop continues.
SkipVendorRoute ==
    /\ parseState = "running" /\ ~Walking
    /\ wret \notin {NoReturn, ""}
    /\ shouldSkipRouteParse(route)
    /\ skippedRoutes' = skippedRoutes \cup {routeIdx}
    /\ routeIdx' = routeIdx + 1
    /\ wret' = NoReturn
    /\ UNCHANGED <<Routes, route, wstack, activeFile, parseState>>
    /\ UNCHANGED notWalkerVars

\* Lines 27-28: parseRoute failed on any other route; ParseRoutes returns the error.
FailParseRoutes ==
    /\ parseState = "running" /\ ~Walking
    /\ wret \notin {NoReturn, ""}
    /\ ~shouldSkipRouteParse(route)
    /\ parseState' = "failed"
    /\ UNCHANGED <<Routes, routeIdx, route, wstack, wret, activeFile, skippedRoutes>>
    /\ UNCHANGED notWalkerVars

\* Line 31: s.ReplaceRoute(route) puts the walked copy in place of the route.
ReplaceRoute ==
    /\ parseState = "running" /\ ~Walking
    /\ wret = ""
    /\ Routes' = [Routes EXCEPT ![routeIdx] = route]
    /\ routeIdx' = routeIdx + 1
    /\ wret' = NoReturn
    /\ UNCHANGED <<route, wstack, activeFile, parseState, skippedRoutes>>
    /\ UNCHANGED notWalkerVars

\* Lines 33-35: the loop is over; ParseRoutes returns nil.
ParseRoutesReturns ==
    /\ parseState = "running" /\ ~Walking /\ wret = NoReturn
    /\ routeIdx > Len(Routes)
    /\ parseState' = "ok"
    /\ UNCHANGED <<Routes, routeIdx, route, wstack, wret, activeFile, skippedRoutes>>
    /\ UNCHANGED notWalkerVars

\* parseFunction, lines 30-42: the function has no body.
EnterNoBody ==
    /\ Walking /\ WTop.pc = "entry"
    /\ ~Funcs[WTop.fn].hasBody
    /\ WReturn("function body is nil")
    /\ UNCHANGED <<Routes, routeIdx, route, activeFile, parseState, skippedRoutes>>
    /\ UNCHANGED notWalkerVars

\* Lines 45-92: the active file is set, and the context parameter is not found.
EnterNoContext ==
    /\ Walking /\ WTop.pc = "entry"
    /\ Funcs[WTop.fn].hasBody
    /\ Funcs[WTop.fn].ctxName = ""
    /\ activeFile' = WTop.file
    /\ route' = IF WTop.level = 0 /\ Funcs[WTop.fn].doc # ""
                THEN [route EXCEPT !.Doc = Funcs[WTop.fn].doc] ELSE route
    /\ WReturn("failed to find context variable name")
    /\ UNCHANGED <<Routes, routeIdx, parseState, skippedRoutes>>
    /\ UNCHANGED notWalkerVars

\* Lines 45-96: the active file is set, at depth 0 the doc comment becomes the
\* route's Doc, the context parameter is found, and Inspect starts.
EnterBody ==
    /\ Walking /\ WTop.pc = "entry"
    /\ Funcs[WTop.fn].hasBody
    /\ Funcs[WTop.fn].ctxName # ""
    /\ activeFile' = WTop.file
    /\ route' = IF WTop.level = 0 /\ Funcs[WTop.fn].doc # ""
                THEN [route EXCEPT !.Doc = Funcs[WTop.fn].doc] ELSE route
    /\ wstack' = [wstack EXCEPT ![Len(wstack)].pc = "inspect"]
    /\ UNCHANGED <<Routes, routeIdx, wret, parseState, skippedRoutes>>
    /\ UNCHANGED notWalkerVars

\* Lines 107-113: the node is no call expression; err is set to nil.
VisitOther ==
    /\ AtNode /\ WNode.k = "other"
    /\ InspectNext(TRUE, "", WTop.currRoute)
    /\ UNCHANGED <<Routes, routeIdx, route, wret, activeFile, parseState, skippedRoutes>>
    /\ UNCHANGED notWalkerVars

\* Lines 115-117: the skip filter takes the call.
VisitSkipped ==
    /\ AtNode /\ WNode.k = "call" /\ WNode.skip
    /\ InspectNext(TRUE, "", WTop.currRoute)
    /\ UNCHANGED <<Routes, routeIdx, route, wret, activeFile, parseState, skippedRoutes>>
    /\ UNCHANGED notWalkerVars

\* Lines 126-140: a custom recogniser returns a route, which becomes the
\* current route (the route its builder was given) ...
VisitCustom ==
    /\ AtCall /\ WNode.custom = "route"
    /\ InspectNext(TRUE, "", WTop.currRoute)
    /\ UNCHANGED <<Routes, routeIdx, route, wret, activeFile, parseState, skippedRoutes>>
    /\ UNCHANGED notWalkerVars

\* ... or an error: the nodes below the call are left out.
VisitCustomFails ==
    /\ AtCall /\ WNode.custom = "err"
    /\ InspectNext(FALSE, "custom function failed", WTop.currRoute)
    /\ UNCHANGED <<Routes, routeIdx, route, wret, activeFile, parseState, skippedRoutes>>
    /\ UNCHANGED notWalkerVars

\* The context-method path taken whatever the arguments of the call are.
AtOtherCallAnyArgument == AtCall /\ WNode.custom = "none"

AtHelperCall == AtCall /\ WNode.custom = "none" /\ WNode.ctxArg
AtOtherCall == AtCall /\ WNode.custom = "none" /\ ~WNode.ctxArg

\* Lines 143-155: the call passes the context, and its declaration is not found.
VisitHelperUnresolved ==
    /\ AtHelperCall /\ WNode.callee \notin FuncNames
    /\ InspectNext(TRUE, "declaration not found", WTop.currRoute)
    /\ activeFile' = WTop.file
    /\ UNCHANGED <<Routes, routeIdx, route, wret, parseState, skippedRoutes>>
    /\ UNCHANGED notWalkerVars

\* Lines 143-157: the call passes the context: parseFunction is called on the
\* callee, in the callee's file, one level deeper.
VisitHelper ==
    /\ AtHelperCall /\ WNode.callee \in FuncNames
    /\ Len(wstack) < MaxWalkDepth
    /\ wstack' = Append([wstack EXCEPT ![Len(wstack)].pc = "wait"],
                        WFrame(WNode.callee, WTop.level + 1, Funcs[WNode.callee].file,
                               WTop.currRoute))
    /\ activeFile' = Funcs[WNode.callee].file
    /\ UNCHANGED <<Routes, routeIdx, route, wret, parseState, skippedRoutes>>
    /\ UNCHANGED notWalkerVars

\* The recursion has used up the goroutine's stack: the runtime ends the
\* process (fatal error: stack overflow).
StackOverflow ==
    /\ AtHelperCall /\ WNode.callee \in FuncNames
    /\ Len(wstack) >= MaxWalkDepth
    /\ parseState = "running"
    /\ parseState' = "crashed"
    /\ UNCHANGED <<Routes, routeIdx, route, wstack, wret, activeFile, skippedRoutes>>
    /\ UNCHANGED notWalkerVars

\* The return of the callee's walk with the active file left as it is.
HelperReturnedNoReset ==
    /\ Walking /\ WTop.pc = "wait"
    /\ wret # NoReturn
    /\ wstack' = [wstack EXCEPT ![Len(wstack)].pc = "inspect",
                                ![Len(wstack)].i = @ + 1,
                                ![Len(wstack)].err = wret]
    /\ wret' = NoReturn
    /\ UNCHANGED <<Routes, routeIdx, route, activeFile, parseState, skippedRoutes>>
    /\ UNCHANGED notWalkerVars

\* Lines 157-166: the walk of the callee has returned, with an error or
\* without; the active file is restored and Inspect goes on below the call.
HelperReturned ==
    /\ Walking /\ WTop.pc = "wait"
    /\ wret # NoReturn
    /\ wstack' = [wstack EXCEPT ![Len(wstack)].pc = "inspect",
                                ![Len(wstack)].i = @ + 1,
                                ![Len(wstack)].err = wret]
    /\ wret' = NoReturn
    /\ activeFile' = WTop.file
    /\ UNCHANGED <<Routes, routeIdx, route, parseState, skippedRoutes>>
    /\ UNCHANGED notWalkerVars

\* Lines 168-178: the type of the callee is not found.
VisitCallTypeFails ==
    /\ AtOtherCall /\ WNode.method = ""
    /\ InspectNext(TRUE, "ErrInvalidNodeType", WTop.currRoute)
    /\ activeFile' = WTop.file
    /\ UNCHANGED <<Routes, routeIdx, route, wret, parseState, skippedRoutes>>
    /\ UNCHANGED notWalkerVars

\* Lines 180-196 and 793-796: the callee is no method of the context, or a
\* method the switch has no case for.
VisitIgnoredCall ==
    /\ AtOtherCall /\ WNode.method # "" /\ WNode.method \notin KnownMethods
    /\ InspectNext(TRUE, "", WTop.currRoute)
    /\ UNCHANGED <<Routes, routeIdx, route, wret, activeFile, parseState, skippedRoutes>>
    /\ UNCHANGED notWalkerVars

\* The builder fails when a slot does. When the current route is nil (an
\* earlier Build failed) the builder has no route for the function it is
\* given: it fails, or the function's write through the nil route panics.
BuildFails == WNode.build = "err" \/ WTop.currRoute = "nil"

VisitMethodPanics ==
    /\ AtOtherCall /\ WNode.method \in KnownMethods
    /\ WNode.build = "ok" /\ WTop.currRoute = "nil"
    /\ parseState' = "panicked"
    /\ UNCHANGED <<Routes, routeIdx, route, wstack, wret, activeFile, skippedRoutes>>
    /\ UNCHANGED notWalkerVars

\* Lines 197-793: a method of the context is extracted into the route.
VisitMethod ==
    /\ AtOtherCall /\ WNode.method \in KnownMethods
    /\ ~BuildFails
    /\ route' = Extract(route, WNode)
    /\ InspectNext(TRUE, "", "route")
    /\ UNCHANGED <<Routes, routeIdx, wret, activeFile, parseState, skippedRoutes>>
    /\ UNCHANGED notWalkerVars

\* Build fails: the current route becomes nil, err is set, and the callback
\* returns false ...
VisitMethodFails ==
    /\ AtOtherCall /\ WNode.method \in KnownMethods \ UncheckedMethods
    /\ BuildFails
    /\ InspectNext(FALSE, "failed to parse", "nil")
    /\ UNCHANGED <<Routes, routeIdx, route, wret, activeFile, parseState, skippedRoutes>>
    /\ UNCHANGED notWalkerVars

\* ... but for Status and Header, whose cases do not test err: the callback
\* returns true.
VisitMethodFailsUnchecked ==
    /\ AtOtherCall /\ WNode.method \in UncheckedMethods
    /\ BuildFails
    /\ InspectNext(TRUE, "failed to parse", "nil")
    /\ UNCHANGED <<Routes, routeIdx, route, wret, activeFile, parseState, skippedRoutes>>
    /\ UNCHANGED notWalkerVars

InspectDone == Walking /\ WTop.pc = "inspect" /\ WTop.i > Len(Funcs[WTop.fn].body)

\* Lines 799-801: Inspect is over and err is set: parseFunction returns it.
FinishWithError ==
    /\ InspectDone /\ WTop.err # ""
    /\ WReturn(WTop.err)
    /\ UNCHANGED <<Routes, routeIdx, route, activeFile, parseState, skippedRoutes>>
    /\ UNCHANGED notWalkerVars

\* Lines 803-825: at depth 0 the current route is nil.
FinishRouteNil ==
    /\ InspectDone /\ WTop.err = ""
    /\ WTop.level = 0 /\ WTop.currRoute = "nil"
    /\ WReturn("current route is nil")
    /\ UNCHANGED <<Routes, routeIdx, route, activeFile, parseState, skippedRoutes>>
    /\ UNCHANGED notWalkerVars

\* Lines 803-851: at depth 0 a route with no ReturnType gets the synthetic one.
FinishHandler ==
    /\ InspectDone /\ WTop.err = ""
    /\ WTop.level = 0 /\ WTop.currRoute = "route"
    /\ route' = [route EXCEPT !.ReturnTypes = WithFallback(@)]
    /\ WReturn("")
    /\ UNCHANGED <<Routes, routeIdx, activeFile, parseState, skippedRoutes>>
    /\ UNCHANGED notWalkerVars

\* Line 851: a helper returns nil.
FinishHelper ==
    /\ InspectDone /\ WTop.err = ""
    /\ WTop.level > 0
    /\ WReturn("")
    /\ UNCHANGED <<Routes, routeIdx, route, activeFile, parseState, skippedRoutes>>
    /\ UNCHANGED notWalkerVars

\* One step of a running parseFunction.
parseFunction ==
    \/ EnterNoBody
    \/ EnterNoContext
    \/ EnterBody
    \/ VisitOther
    \/ VisitSkipped
    \/ VisitCustom
    \/ VisitCustomFails
    \/ VisitHelperUnresolved
    \/ VisitHelper
    \/ StackOverflow
    \/ HelperReturned
    \/ VisitCallTypeFails
    \/ VisitIgnoredCall
    \/ VisitMethod
    \/ VisitMethodFails
    \/ VisitMethodFailsUnchecked
    \/ VisitMethodPanics
    \/ FinishWithError
    \/ FinishRouteNil
    \/ FinishHandler
    \/ FinishHelper

\* One step of ParseRoutes.
ParseRoutes ==
    \/ ParseRoute
    \/ ParseRouteNoHandler
    \/ SkipVendorRoute
    \/ FailParseRoutes
    \/ ReplaceRoute
    \/ ParseRoutesReturns

NextWalker == ParseRoutes \/ parseFunction

\* C1: after ParseRoutes returns without error, every route of the service has
\* at least one ReturnType.
C1_EveryRouteHasReturnType ==
    parseState = "ok" => \A i \in 1..Len(Routes) : Len(Routes[i].ReturnTypes) >= 1

\* C1, as the code has it: after ParseRoutes returns without error, every
\* route whose parseRoute returned without error has at least one ReturnType;
\* the routes left without are vendor routes whose parse failed and was skipped.
C1_EveryParsedRouteHasReturnType ==
    parseState = "ok" =>
        \A i \in 1..Len(Routes) :
            /\ i \notin skippedRoutes => Len(Routes[i].ReturnTypes) >= 1
            /\ i \in skippedRoutes => shouldSkipRouteParse(Routes[i])

\* ParseRoutes has returned nil for a service with a handler that makes no
\* response call: its route holds the synthetic ReturnType and nothing else.
C1_Witness_SyntheticFallback ==
    /\ parseState = "ok"
    /\ skippedRoutes = {}
    /\ \E i \in 1..Len(Routes) :
          Routes[i].Handler = "Ping" /\ Routes[i].ReturnTypes = << SyntheticReturnType >>

\* C4: parseFunction terminates on every call graph: no function is walked
\* again while a walk of it is in progress (the walker decides from the call
\* expression alone, so a function met again on its own stack is met without
\* end), and the walk never exhausts the stack.
C4_WalkTerminates ==
    /\ parseState # "crashed"
    /\ \A i, j \in 1..Len(wstack) : wstack[i].fn = wstack[j].fn => i = j

\* The functions whose own body holds a context-method call that fails to
\* extract.
HasFailingCall(fn) ==
    fn \in FuncNames /\ \E i \in 1..Len(Funcs[fn].body) : Funcs[fn].body[i].build = "err"

\* C15: when the handler's body holds a context-method call whose extraction
\* fails, the depth-0 parseFunction still returns nil.
C15_FailureConfinedToCall ==
    (parseState = "running" /\ ~Walking /\ wret # NoReturn /\ HasFailingCall(route.Handler))
        => wret = ""

\* The lists of a route that the extractions fill.
ExtractionLists == {"ReturnTypes", "QueryParams", "Body", "RequestHeaders", "ResponseHeaders"}

IsPrefix(s, t) == Len(s) <= Len(t) /\ SubSeq(t, 1, Len(s)) = s

\* The walk is at a call of a context method, inside a helper, that extracts.
AtHelperExtraction ==
    /\ AtOtherCall /\ WTop.level > 0
    /\ WNode.method \in KnownMethods /\ WNode.build = "ok" /\ WTop.currRoute = "route"

\* The list of r that a call of method m extends.
ListOf(r, m) ==
    IF m \in ReturnTypeMethods THEN r.ReturnTypes
    ELSE IF m \in {"GetQuery", "Query"} THEN r.QueryParams
    ELSE IF m = "GetHeader" THEN r.RequestHeaders
    ELSE IF m = "Header" THEN r.ResponseHeaders
    ELSE r.Body

EndsWithoutReturnType ==
    /\ InspectDone /\ WTop.err = ""
    /\ WTop.level = 0 /\ WTop.currRoute = "route"
    /\ route.ReturnTypes = <<>>

\* C23: the end of a depth-0 walk on a route with no ReturnType leaves the
\* synthetic one; every other step of a walk, the end of a helper's walk and
\* the end of a depth-0 walk on a route that has a ReturnType included,
\* leaves ReturnTypes alone, but for the extraction of a context method.
C23_FallbackOnlyAtDepth0WhenEmpty ==
    [][Walking =>
          IF EndsWithoutReturnType
          THEN route'.ReturnTypes = << SyntheticReturnType >>
          ELSE route'.ReturnTypes = route.ReturnTypes \/ AtOtherCall]_vars

\* The depth-0 walk of Mixed has returned nil: its helper quiet made no
\* response call, its helper respond made one, and the route holds that one
\* alone.
C23_Witness_HelperWithoutResponse ==
    /\ parseState = "running" /\ ~Walking /\ wret = ""
    /\ route.Handler = "Mixed"
    /\ route.ReturnTypes = << WReturnType(201, "application/json", WField("A", "p")) >>

\* C26: a call taken by the skip filter or by a custom recogniser causes
\* neither a recursion nor an extraction; a call that passes the context as an
\* argument causes no extraction; a call that does not causes no recursion.
C26_OnePathPerCall ==
    [][(AtNode /\ WNode.k = "call") =>
          /\ (WNode.skip \/ WNode.custom # "none") =>
                route' = route /\ Len(wstack') = Len(wstack)
          /\ (~WNode.skip /\ WNode.custom = "none" /\ WNode.ctxArg) => route' = route
          /\ (~WNode.skip /\ WNode.custom = "none" /\ ~WNode.ctxArg) =>
                Len(wstack') = Len(wstack)]_vars

\* The walk of Mixed is past its first calls, a skipped call whose callee
\* writes a response, a call taken by a custom recogniser whose callee writes
\* one, and c.JSON(203, c): the route holds no ReturnType.
C26_Witness_PastSkippedCustomAndCtxMethod ==
    /\ Walking /\ Len(wstack) = 1
    /\ WTop.fn = "Mixed" /\ WTop.pc = "inspect" /\ WTop.i = 6
    /\ route.ReturnTypes = <<>>

\* The route's File starts with vendor/.
InVendor(r) == Len(r.File) >= 2 /\ Head(r.File) = "vendor"

\* parseRoute has just returned an error to the loop of ParseRoutes.
ParseRouteFailed == parseState = "running" /\ ~Walking /\ wret \notin {NoReturn, ""}

\* A route of the service is as CreateRoutes made it.
AsCreated(r) == r \in RouteTemplates

\* C18: a parseRoute failure on a vendor route is skipped: the loop goes on
\* with the next route, the failed route stays as created, and the routes that
\* did not fail are parsed and replaced. A failure on any other route ends
\* ParseRoutes with that error at once: that route and the routes after it stay
\* as created.
C18_VendorSkippedOthersAbort ==
    /\ [](/\ \A i \in skippedRoutes : InVendor(Routes[i]) /\ AsCreated(Routes[i])
          /\ parseState = "ok" =>
                \A i \in 1..Len(Routes) : i \notin skippedRoutes => ~AsCreated(Routes[i])
          /\ parseState = "failed" =>
                /\ ~InVendor(Routes[routeIdx])
                /\ wret \notin {NoReturn, ""}
                /\ \A j \in routeIdx..Len(Routes) : AsCreated(Routes[j]))
    /\ [][ParseRouteFailed =>
             /\ Routes' = Routes
             /\ IF InVendor(route)
                THEN /\ parseState' = "running"
                     /\ routeIdx' = routeIdx + 1
                     /\ skippedRoutes' = skippedRoutes \cup {routeIdx}
                ELSE parseState' = "failed" /\ wret' = wret /\ routeIdx' = routeIdx]_vars

\* ParseRoutes has returned nil on two routes: the first, a vendor route, failed
\* and is as created; the second was parsed and replaced.
C18_Witness_VendorSkippedNextParsed ==
    /\ parseState = "ok"
    /\ Len(Routes) = 2
    /\ skippedRoutes = {1}
    /\ InVendor(Routes[1]) /\ AsCreated(Routes[1])
    /\ Len(Routes[2].ReturnTypes) >= 1

(***************************************************************************)
(*                            OPENAPI EMITTER                              *)
(***************************************************************************)

\* Bounds of the emitter model: the routes of the service Generate is run on.
MaxEmitRoutes == 3

\* Strings are sequences of characters, so that the code's string functions
\* are computed. AsciiOrder lists the characters in the order of their codes.
DigitChars == <<"0", "1", "2", "3", "4", "5", "6", "7", "8", "9">>
UpperLetters == <<"A", "B", "C", "D", "E", "F", "G", "H", "I", "J", "K", "L", "M", "N", "O", "P", "Q", "R", "S", "T", "U", "V", "W", "X", "Y", "Z">>
LowerLetters == <<"a", "b", "c", "d", "e", "f", "g", "h", "i", "j", "k", "l", "m", "n", "o", "p", "q", "r", "s", "t", "u", "v", "w", "x", "y", "z">>
AsciiOrder == <<" ", "#", "*", "-", ".", "/">> \o DigitChars \o <<":">> \o UpperLetters \o <<"_">> \o LowerLetters \o <<"{", "}">>

CharCodes ==
    [c \in { AsciiOrder[i] : i \in 1..Len(AsciiOrder) } |->
        CHOOSE i \in 1..Len(AsciiOrder) : AsciiOrder[i] = c]
CharCode(c) == CharCodes[c]
DigitSet == { DigitChars[i] : i \in 1..10 }
UpperSet == { UpperLetters[i] : i \in 1..26 }
LowerSet == { LowerLetters[i] : i \in 1..26 }
IsDigit(c) == c \in DigitSet
IsUpper(c) == c \in UpperSet
IsLower(c) == c \in LowerSet
IsLetter(c) == IsUpper(c) \/ IsLower(c)
ToUpper(c) == IF IsLower(c) THEN UpperLetters[CHOOSE i \in 1..26 : LowerLetters[i] = c] ELSE c
ToLower(c) == IF IsUpper(c) THEN LowerLetters[CHOOSE i \in 1..26 : UpperLetters[i] = c] ELSE c

\* a < b for strings.
RECURSIVE StrLess(_, _)
StrLess(a, b) ==
    IF b = <<>> THEN FALSE
    ELSE IF a = <<>> THEN TRUE
    ELSE IF a[1] # b[1] THEN CharCode(a[1]) < CharCode(b[1])
    ELSE StrLess(Tail(a), Tail(b))

\* strconv.Itoa, and the %d of fmt.Sprintf.
RECURSIVE Itoa(_)
Itoa(n) == IF n < 10 THEN << DigitChars[n + 1] >> ELSE Itoa(n \div 10) \o << DigitChars[(n % 10) + 1] >>

\* strings.Join.
RECURSIVE Join(_, _)
Join(parts, sep) ==
    IF parts = <<>> THEN <<>>
    ELSE IF Len(parts) = 1 THEN parts[1]
    ELSE parts[1] \o sep \o Join(Tail(parts), sep)

\* The elements of a sequence in the order of less, elements that less does
\* not order keeping their places.
SortBy(s, less(_, _)) ==
    LET rank == [i \in 1..Len(s) |->
                    1 + Cardinality({ j \in 1..Len(s) :
                            less(s[j], s[i]) \/ (~less(s[i], s[j]) /\ j < i) })]
        place == [k \in 1..Len(s) |-> CHOOSE i \in 1..Len(s) : rank[i] = k]
    IN [k \in 1..Len(s) |-> s[place[k]]]

\* The orders in which the elements of a sequence may come.
Orders(s) ==
    { [i \in 1..Len(s) |-> s[p[i]]] :
        p \in { q \in [1..Len(s) -> 1..Len(s)] : \A i, j \in 1..Len(s) : q[i] = q[j] => i = j } }

\* The binding tag kinds, and the tag that stands for no binding.
NoBindingTag == <<>>
JSONBindingTag == <<"j", "s", "o", "n">>
FormBindingTag == <<"f", "o", "r", "m">>
HeaderBindingTag == <<"h", "e", "a", "d", "e", "r">>
URIBindingTag == <<"u", "r", "i">>

\* normalizeSchemaName: the name is cut at every character that is neither a
\* letter nor a digit, the first character of each part is put in upper case,
\* and the parts are concatenated.
RECURSIVE NormalizeFrom(_, _, _)
NormalizeFrom(name, i, partStart) ==
    IF i > Len(name) THEN <<>>
    ELSE IF ~(IsLetter(name[i]) \/ IsDigit(name[i])) THEN NormalizeFrom(name, i + 1, TRUE)
    ELSE << IF partStart THEN ToUpper(name[i]) ELSE name[i] >> \o NormalizeFrom(name, i + 1, FALSE)

normalizeSchemaName(name) == NormalizeFrom(name, 1, TRUE)

\* collisionSafeKey: pkg.tag.name, or pkg.name with no binding tag.
collisionSafeKey(bindingType, name, pkg) ==
    IF bindingType # NoBindingTag THEN Join(<< pkg, bindingType, name >>, <<".">>)
    ELSE Join(<< pkg, name >>, <<".">>)

\* A struct field of a component: its type, and its name under each kind of
\* binding tag (the empty string when the field has no such tag).
CField(type, json, form, header, none) ==
    [Type |-> type, json |-> json, form |-> form, header |-> header, none |-> none]

\* A component: astra.Field with Package, Name, Type and StructFields.
Component(pkg, name, type, fields) ==
    [Package |-> pkg, Name |-> name, Type |-> type, StructFields |-> fields]

\* The name of a struct field under a binding tag (StructFieldBindingTags).
FieldBinding(f, tag) ==
    IF tag = JSONBindingTag THEN f.json
    ELSE IF tag = FormBindingTag THEN f.form
    ELSE IF tag = HeaderBindingTag THEN f.header
    ELSE IF tag = NoBindingTag THEN f.none
    ELSE <<>>

TagKinds == << JSONBindingTag, FormBindingTag, HeaderBindingTag, NoBindingTag >>

\* astra.ExtractBindingTags: the kinds of binding tag the fields carry, and
\* whether some field is named differently under two of them.
ExtractBindingTags(fields) ==
    [ bindingTags |->
          LET present == SelectSeq(TagKinds, LAMBDA tag :
                             \E i \in 1..Len(fields) : FieldBinding(fields[i], tag) # <<>>)
          IN IF present = <<>> THEN << NoBindingTag >> ELSE present,
      uniqueBindings |->
          \E i \in 1..Len(fields) : \E j, k \in 1..Len(TagKinds) :
              /\ FieldBinding(fields[i], TagKinds[j]) # <<>>
              /\ FieldBinding(fields[i], TagKinds[k]) # <<>>
              /\ FieldBinding(fields[i], TagKinds[j]) # FieldBinding(fields[i], TagKinds[k]) ]

\* Lines 64-91 of makeCollisionSafeNamesFromComponents: the name entries of
\* one component, one per binding tag when the bindings are unique.
EntriesOf(component) ==
    LET x == ExtractBindingTags(component.StructFields) IN
    IF x.uniqueBindings
    THEN [ i \in 1..Len(x.bindingTags) |->
             LET name == IF x.bindingTags[i] # NoBindingTag
                         THEN component.Name \o <<"_">> \o x.bindingTags[i]
                         ELSE component.Name
             IN [ keys |-> << collisionSafeKey(x.bindingTags[i], component.Name,
                                               component.Package) >>,
                  baseName |-> name,
                  normalizedName |-> normalizeSchemaName(name),
                  pkg |-> component.Package ] ]
    ELSE << [ keys |-> [ i \in 1..Len(x.bindingTags) |->
                           collisionSafeKey(x.bindingTags[i], component.Name,
                                            component.Package) ],
              baseName |-> component.Name,
              normalizedName |-> normalizeSchemaName(component.Name),
              pkg |-> component.Package ] >>

RECURSIVE AllEntries(_)
AllEntries(components) ==
    IF components = <<>> THEN <<>>
    ELSE EntriesOf(components[1]) \o AllEntries(Tail(components))

\* Lines 94-102: the order of the entries.
EntryLess(a, b) ==
    IF a.normalizedName = b.normalizedName
    THEN IF a.pkg = b.pkg THEN StrLess(Join(a.keys, <<".">>), Join(b.keys, <<".">>))
         ELSE StrLess(a.pkg, b.pkg)
    ELSE StrLess(a.normalizedName, b.normalizedName)

\* Lines 104-119: an entry whose normalised name is shared gets its base name
\* with the suffix _k, k its rank among the entries that share it; any other
\* entry gets its base name.
FinalNames(entries) ==
    [ i \in 1..Len(entries) |->
        LET shared == { j \in 1..Len(entries) :
                          entries[j].normalizedName = entries[i].normalizedName }
        IN [ keys |-> entries[i].keys,
             finalName |-> IF Cardinality(shared) > 1
                           THEN entries[i].baseName \o <<"_">>
                                    \o Itoa(Cardinality({ j \in shared : j <= i }))
                           ELSE entries[i].baseName ] ]

\* The final names given to the entries in the order of the components.
makeCollisionSafeNamesUnsorted(components) == FinalNames(AllEntries(components))

\* makeCollisionSafeNamesFromComponents: the entries with their final names.
makeCollisionSafeNamesFromComponents(components) ==
    FinalNames(SortBy(AllEntries(components), EntryLess))

\* makeComponentRefName over the table of names: the name under the key of
\* the binding tag, else under the key with no binding tag.
NameOfKey(names, key) ==
    IF \E i \in 1..Len(names) : \E k \in 1..Len(names[i].keys) : names[i].keys[k] = key
    THEN LET last == CHOOSE i \in 1..Len(names) :
                        /\ \E k \in 1..Len(names[i].keys) : names[i].keys[k] = key
                        /\ \A j \in (i + 1)..Len(names) :
                              \A k \in 1..Len(names[j].keys) : names[j].keys[k] # key
         IN names[last].finalName
    ELSE <<>>

makeComponentRefName(names, bindingType, name, pkg) ==
    IF NameOfKey(names, collisionSafeKey(bindingType, name, pkg)) # <<>>
    THEN NameOfKey(names, collisionSafeKey(bindingType, name, pkg))
    ELSE NameOfKey(names, collisionSafeKey(NoBindingTag, name, pkg))

\* A Schema: its type, its $ref, its items (nil or one schema) and its
\* properties, a map from names to schemas. A map is the sequence of its
\* entries, each name once.
EmptySchema == [Type |-> <<>>, Ref |-> <<>>, Items |-> <<>>, Properties |-> <<>>]
TypeSchema(type) == [EmptySchema EXCEPT !.Type = type]
RefSchema(ref) == [EmptySchema EXCEPT !.Ref = ref]

\* m[name] = schema on a map.
MapPut(m, name, schema) ==
    IF \E i \in 1..Len(m) : m[i].Name = name
    THEN [i \in 1..Len(m) |-> IF m[i].Name = name THEN [Name |-> name, Schema |-> schema] ELSE m[i]]
    ELSE Append(m, [Name |-> name, Schema |-> schema])

\* The orders in which a range over a map may yield its entries: the runtime
\* starts the iteration at a position it draws at random.
MapIterationOrders(m) ==
    IF m = <<>> THEN { <<>> }
    ELSE { [i \in 1..Len(m) |-> m[((i + r - 1) % Len(m)) + 1]] : r \in 0..(Len(m) - 1) }

\* The orders sort.Slice may leave the parameters in, sorted by name: up to 12
\* elements are sorted by insertion, which keeps the parameters of one name in
\* their order; the order of the parameters of one name in a longer slice is
\* not specified.
ParameterLess(a, b) == StrLess(a.Name, b.Name)

RECURSIVE TieOrders(_)
TieOrders(sorted) ==
    IF sorted = <<>> THEN { <<>> }
    ELSE LET n == Cardinality({ i \in 1..Len(sorted) : sorted[i].Name = sorted[1].Name })
         IN { a \o b : a \in Orders(SubSeq(sorted, 1, n)),
                       b \in TieOrders(SubSeq(sorted, n + 1, Len(sorted))) }

sortSlice(parameters) ==
    IF Len(parameters) <= 12 THEN { SortBy(parameters, ParameterLess) }
    ELSE TieOrders(SortBy(parameters, ParameterLess))

\* astra.PredefinedTypeMap, as far as the types of the model go.
PredefinedTypeMap(type) ==
    IF type = <<"s", "t", "r", "i", "n", "g">> THEN <<"s", "t", "r", "i", "n", "g">>
    ELSE IF type = <<"i", "n", "t">> THEN <<"i", "n", "t", "e", "g", "e", "r">>
    ELSE IF type = <<"b", "o", "o", "l">> THEN <<"b", "o", "o", "l", "e", "a", "n">>
    ELSE <<>>

mapPredefinedTypeFormat(acceptedType) ==
    IF PredefinedTypeMap(acceptedType) # <<>> THEN TypeSchema(PredefinedTypeMap(acceptedType))
    ELSE EmptySchema

IsAcceptedType(type) ==
    PredefinedTypeMap(type) # <<>> \/ type \in { <<"s", "t", "r", "u", "c", "t">>, <<"s", "l", "i", "c", "e">>, <<"a", "r", "r", "a", "y">>, <<"m", "a", "p">>, <<"a", "n", "y">> }

\* makeComponentRef: the reference to the name; not bound with no name.
makeComponentRef(names, bindingType, name, pkg) ==
    LET componentName == makeComponentRefName(names, bindingType, name, pkg)
    IN [ref |-> IF componentName # <<>> THEN <<"#", "/", "c", "o", "m", "p", "o", "n", "e", "n", "t", "s", "/", "s", "c", "h", "e", "m", "a", "s", "/">> \o componentName ELSE <<>>,
        bound |-> componentName # <<>>]

\* Lines 222-252 of mapFieldToSchema, for fields of a predefined or a named
\* type.
mapNamedFieldToSchema(names, bindingType, field) ==
    IF ~IsAcceptedType(field.Type)
    THEN LET r == makeComponentRef(names, bindingType, field.Type, field.Package)
         IN IF r.bound THEN [schema |-> RefSchema(r.ref), bound |-> TRUE]
            ELSE [schema |-> EmptySchema, bound |-> FALSE]
    ELSE [schema |-> mapPredefinedTypeFormat(field.Type), bound |-> TRUE]

isSchemaEmpty(schema) ==
    schema.Ref = <<>> /\ schema.Type = <<>> /\ schema.Items = <<>> /\ schema.Properties = <<>>

ensureSchema(schema) == IF isSchemaEmpty(schema) THEN TypeSchema(<<"s", "t", "r", "i", "n", "g">>) ELSE schema

\* Lines 262-288 of mapInlineStructToSchema: the properties of an inline
\* struct, each bound field under its name, its schema through ensureSchema.
RECURSIVE inlineStructProperties(_, _, _, _)
inlineStructProperties(names, pkg, fields, bindingType) ==
    IF fields = <<>> THEN <<>>
    ELSE LET structField == fields[Len(fields)]
             fieldBinding == IF FieldBinding(structField, bindingType) # <<>>
                             THEN FieldBinding(structField, bindingType)
                             ELSE FieldBinding(structField, NoBindingTag)
             before == inlineStructProperties(names, pkg, SubSeq(fields, 1, Len(fields) - 1),
                                              bindingType)
             m == mapNamedFieldToSchema(names, bindingType,
                                        [Type |-> structField.Type, Package |-> pkg])
         IN IF m.bound THEN MapPut(before, fieldBinding, ensureSchema(m.schema)) ELSE before

\* mapInlineStructToSchema, for structs of fields that are not embedded.
mapInlineStructToSchema(names, bindingType, field) ==
    IF \E i \in 1..Len(field.StructFields) :
          /\ FieldBinding(field.StructFields[i], bindingType) = <<>>
          /\ FieldBinding(field.StructFields[i], NoBindingTag) = <<>>
    THEN [schema |-> EmptySchema, bound |-> FALSE]
    ELSE [schema |-> [TypeSchema(<<"o", "b", "j", "e", "c", "t">>) EXCEPT !.Properties =
                         inlineStructProperties(names, field.Package, field.StructFields,
                                                bindingType)],
          bound |-> TRUE]

\* mapFieldToSchema: an inline struct first (lines 217-221); a field built
\* without StructFields has none.
mapFieldToSchema(names, bindingType, field) ==
    IF /\ "StructFields" \in DOMAIN field
       /\ field.Type = <<"s", "t", "r", "u", "c", "t">>
       /\ Len(field.StructFields) > 0
       /\ mapInlineStructToSchema(names, bindingType, field).bound
    THEN mapInlineStructToSchema(names, bindingType, field)
    ELSE mapNamedFieldToSchema(names, bindingType, field)

\* A Param of a route; its Field holds the type and the package.
EParam(name, type, pkg, isBound, isArray) ==
    [Name |-> name, Field |-> [Type |-> type, Package |-> pkg],
     IsRequired |-> FALSE, IsBound |-> isBound, IsArray |-> isArray]

mapParamToSchema(names, bindingType, param) ==
    IF param.IsBound THEN mapFieldToSchema(names, bindingType, param.Field)
    ELSE IF param.IsArray
    THEN LET r == makeComponentRef(names, bindingType, param.Field.Type, param.Field.Package)
             itemSchema == IF ~IsAcceptedType(param.Field.Type) /\ r.bound THEN RefSchema(r.ref)
                           ELSE mapPredefinedTypeFormat(param.Field.Type)
         IN [schema |-> [TypeSchema(<<"a", "r", "r", "a", "y">>) EXCEPT !.Items = << itemSchema >>], bound |-> TRUE]
    ELSE [schema |-> mapPredefinedTypeFormat(param.Field.Type), bound |-> TRUE]

getQueryParamStyle(schema) ==
    IF schema.Type = <<"o", "b", "j", "e", "c", "t">> THEN [style |-> "deepObject", explode |-> TRUE]
    ELSE [style |-> "form", explode |-> FALSE]

NoComponent == Component(<<>>, <<>>, <<>>, <<>>)

\* findComponentByPackageAndType: the first component of the package and name.
findComponentByPackageAndType(fields, pkg, typeName) ==
    LET found == { i \in 1..Len(fields) : fields[i].Package = pkg /\ fields[i].Name = typeName }
    IN IF found = {} THEN [field |-> NoComponent, found |-> FALSE]
       ELSE [field |-> fields[CHOOSE i \in found : \A j \in found : i <= j], found |-> TRUE]

\* The last branch of componentToSchema, which is also the schema of a struct
\* field of a predefined or a named type.
namedTypeToSchema(names, type, pkg, bindingType) ==
    LET schema == mapPredefinedTypeFormat(type)
        r == makeComponentRef(names, bindingType, type, pkg)
    IN IF schema.Type = <<>> /\ ~IsAcceptedType(type) /\ r.bound THEN RefSchema(r.ref) ELSE schema

\* The properties of a struct: each shown field under its name for the
\* binding tag, or under its name with no tag.
RECURSIVE structProperties(_, _, _, _)
structProperties(names, pkg, fields, bindingType) ==
    IF fields = <<>> THEN <<>>
    ELSE LET field == fields[Len(fields)]
             fieldBinding == IF FieldBinding(field, bindingType) # <<>>
                             THEN FieldBinding(field, bindingType)
                             ELSE FieldBinding(field, NoBindingTag)
         IN MapPut(structProperties(names, pkg, SubSeq(fields, 1, Len(fields) - 1), bindingType),
                   fieldBinding, namedTypeToSchema(names, field.Type, pkg, bindingType))

\* componentToSchema, for structs of fields that are not embedded and for
\* named types of a predefined type. No type mapping is registered.
componentToSchema(names, component, bindingType) ==
    IF component.Type = <<"s", "t", "r", "u", "c", "t">>
    THEN IF \E i \in 1..Len(component.StructFields) :
               /\ FieldBinding(component.StructFields[i], bindingType) = <<>>
               /\ FieldBinding(component.StructFields[i], NoBindingTag) = <<>>
         THEN [schema |-> EmptySchema, bound |-> FALSE]
         ELSE [schema |-> [TypeSchema(<<"o", "b", "j", "e", "c", "t">>) EXCEPT !.Properties =
                              structProperties(names, component.Package,
                                               component.StructFields, bindingType)],
               bound |-> TRUE]
    ELSE [schema |-> namedTypeToSchema(names, component.Type, component.Package, bindingType),
          bound |-> TRUE]

\* preferredComponentBinding: JSON before form before header before none,
\* else the first tag.
PreferredOrder == << JSONBindingTag, FormBindingTag, URIBindingTag, HeaderBindingTag, NoBindingTag >>

preferredComponentBinding(bindingTags) ==
    LET hit == { i \in 1..Len(PreferredOrder) :
                   \E k \in 1..Len(bindingTags) : bindingTags[k] = PreferredOrder[i] }
    IN IF hit # {} THEN PreferredOrder[CHOOSE i \in hit : \A j \in hit : i <= j]
       ELSE IF Len(bindingTags) > 0 THEN bindingTags[1]
       ELSE NoBindingTag

\* utils.MapPathParams with the function Generate gives it: the segment :x
\* becomes {x} and the segment *x becomes {x*}.
RECURSIVE MapPathParams(_)
MapPathParams(path) ==
    IF path = <<>> THEN <<>>
    ELSE IF path[1] \in { ":", "*" }
    THEN LET ends == { i \in 2..Len(path) : path[i] = "/" }
             e == IF ends = {} THEN Len(path) + 1 ELSE CHOOSE i \in ends : \A j \in ends : i <= j
         IN <<"{">> \o SubSeq(path, 2, e - 1) \o (IF path[1] = "*" THEN <<"*">> ELSE <<>>) \o <<"}">>
               \o MapPathParams(SubSeq(path, e, Len(path)))
    ELSE << path[1] >> \o MapPathParams(Tail(path))

\* strcase.ToLowerCamel: the first letter in lower case, a letter that follows
\* a separator or a digit in upper case, the separators dropped.
RECURSIVE ToCamelFrom(_, _, _, _)
ToCamelFrom(s, i, capNext, isFirst) ==
    IF i > Len(s) THEN <<>>
    ELSE IF IsLetter(s[i])
    THEN << IF capNext THEN ToUpper(s[i]) ELSE IF isFirst THEN ToLower(s[i]) ELSE s[i] >>
             \o ToCamelFrom(s, i + 1, FALSE, FALSE)
    ELSE IF IsDigit(s[i]) THEN << s[i] >> \o ToCamelFrom(s, i + 1, TRUE, FALSE)
    ELSE ToCamelFrom(s, i + 1, s[i] \in { "_", " ", "-", "." }, FALSE)

RECURSIVE TrimSpace(_)
TrimSpace(s) ==
    IF s # <<>> /\ s[1] = " " THEN TrimSpace(Tail(s))
    ELSE IF s # <<>> /\ s[Len(s)] = " " THEN TrimSpace(SubSeq(s, 1, Len(s) - 1))
    ELSE s

ToLowerCamel(s) == ToCamelFrom(TrimSpace(s), 1, FALSE, TRUE)

defaultOperationID(method, endpointPath) ==
    LET raw == [i \in 1..Len(method) |-> ToLower(method[i])] \o <<" ">> \o endpointPath
        sanitized == [i \in 1..Len(raw) |->
                         IF IsLetter(raw[i]) \/ IsDigit(raw[i]) THEN raw[i] ELSE " "]
    IN ToLowerCamel(sanitized)

\* The routes Generate is run on. A BodyParam and a ReturnType hold a content
\* type and a Field.
EBodyParam(name, contentType, type, pkg) ==
    [Name |-> name, ContentType |-> contentType, Field |-> [Type |-> type, Package |-> pkg]]

EReturnType(statusCode, contentType, type, pkg) ==
    [StatusCode |-> statusCode, ContentType |-> contentType,
     Field |-> [Type |-> type, Package |-> pkg]]

ERoute(method, path, operationID, pathParams, requestHeaders, queryParams, body, returnTypes) ==
    [Method |-> method, Path |-> path, OperationID |-> operationID, PathParams |-> pathParams,
     RequestHeaders |-> requestHeaders, QueryParams |-> queryParams,
     ResponseHeaders |-> <<>>, Body |-> body, ReturnTypes |-> returnTypes]

EmitRouteTemplates ==
    { \* GET /c/:a, the handler binds the query to a.Q and reads the query a
      ERoute(<<"G", "E", "T">>, <<"/", "c", "/", ":", "a">>, <<>>, << EParam(<<"a">>, <<"s", "t", "r", "i", "n", "g">>, <<>>, FALSE, FALSE) >>, <<>>,
             << EParam(<<>>, <<"Q">>, <<"a">>, TRUE, FALSE), EParam(<<"a">>, <<"s", "t", "r", "i", "n", "g">>, <<>>, FALSE, FALSE) >>,
             <<>>, << EReturnType(200, <<"a", "p", "p", "l", "i", "c", "a", "t", "i", "o", "n", "/", "j", "s", "o", "n">>, <<"s", "t", "r", "i", "n", "g">>, <<>>) >>),
      \* GET /c_d, the handler reads the query q twice and the header x
      ERoute(<<"G", "E", "T">>, <<"/", "c", "_", "d">>, <<>>, <<>>, << EParam(<<"x">>, <<"s", "t", "r", "i", "n", "g">>, <<>>, FALSE, FALSE) >>,
             << EParam(<<"q">>, <<"s", "t", "r", "i", "n", "g">>, <<>>, FALSE, FALSE),
                EParam(<<"q">>, <<"s", "t", "r", "i", "n", "g">>, <<>>, FALSE, FALSE),
                EParam(<<"t">>, <<"s", "t", "r", "i", "n", "g">>, <<>>, FALSE, TRUE) >>,
             <<>>, <<>>),
      \* GET /c-d
      ERoute(<<"G", "E", "T">>, <<"/", "c", "-", "d">>, <<>>, <<>>, <<>>, <<>>, <<>>,
             << EReturnType(200, <<"a", "p", "p", "l", "i", "c", "a", "t", "i", "o", "n", "/", "j", "s", "o", "n">>, <<"U", "s", "e", "r">>, <<"b">>) >>),
      \* POST /c with the operation ID a, the handler binds the headers to a.H,
      \* binds the body to a string and then to a.User, then reads two form fields
      ERoute(<<"P", "O", "S", "T">>, <<"/", "c">>, <<"a">>, <<>>, << EParam(<<>>, <<"H">>, <<"a">>, TRUE, FALSE) >>, <<>>,
             << EBodyParam(<<>>, <<"a", "p", "p", "l", "i", "c", "a", "t", "i", "o", "n", "/", "j", "s", "o", "n">>, <<"s", "t", "r", "i", "n", "g">>, <<>>),
                EBodyParam(<<>>, <<"a", "p", "p", "l", "i", "c", "a", "t", "i", "o", "n", "/", "j", "s", "o", "n">>, <<"U", "s", "e", "r">>, <<"a">>),
                EBodyParam(<<"n">>, <<"a", "p", "p", "l", "i", "c", "a", "t", "i", "o", "n", "/", "x", "-", "w", "w", "w", "-", "f", "o", "r", "m", "-", "u", "r", "l", "e", "n", "c", "o", "d", "e", "d">>, <<"s", "t", "r", "i", "n", "g">>, <<>>),
                EBodyParam(<<"m">>, <<"a", "p", "p", "l", "i", "c", "a", "t", "i", "o", "n", "/", "x", "-", "w", "w", "w", "-", "f", "o", "r", "m", "-", "u", "r", "l", "e", "n", "c", "o", "d", "e", "d">>, <<"s", "t", "r", "i", "n", "g">>, <<>>) >>,
             << EReturnType(201, <<"a", "p", "p", "l", "i", "c", "a", "t", "i", "o", "n", "/", "j", "s", "o", "n">>, <<"U", "s", "e", "r">>, <<"a">>),
                EReturnType(400, <<"a", "p", "p", "l", "i", "c", "a", "t", "i", "o", "n", "/", "j", "s", "o", "n">>, <<"s", "t", "r", "i", "n", "g">>, <<>>) >>),
      \* PUT /c with the operation ID a
      ERoute(<<"P", "U", "T">>, <<"/", "c">>, <<"a">>, <<>>, <<>>, <<>>, <<>>,
             << [StatusCode |-> 200, ContentType |-> <<"a", "p", "p", "l", "i", "c", "a", "t", "i", "o", "n", "/", "j", "s", "o", "n">>,
                 Field |-> [Type |-> <<"s", "t", "r", "u", "c", "t">>, Package |-> <<"a">>,
                            StructFields |-> << CField(<<"a", "n", "y">>, <<"v">>, <<>>, <<>>, <<>>),
                                                CField(<<"s", "t", "r", "i", "n", "g">>, <<"s">>, <<>>, <<>>, <<>>) >>]] >>),
      \* DELETE /c with the operation ID a_2
      ERoute(<<"D", "E", "L", "E", "T", "E">>, <<"/", "c">>, <<"a", "_", "2">>, <<>>, <<>>, <<>>, <<>>, <<>>) }

\* The components: a.Q with eleven form fields b to l, a.H whose field has
\* different names under its tags, and the types User and User_1.
FormField(name) == CField(<<"s", "t", "r", "i", "n", "g">>, <<>>, name, <<>>, <<>>)
ComponentQ ==
    Component(<<"a">>, <<"Q">>, <<"s", "t", "r", "u", "c", "t">>,
              [i \in 1..11 |-> FormField(<< LowerLetters[i + 1] >>)])
ComponentH ==
    Component(<<"a">>, <<"H">>, <<"s", "t", "r", "u", "c", "t">>, << CField(<<"s", "t", "r", "i", "n", "g">>, <<"n">>, <<"m">>, <<"x", "-", "n">>, <<>>) >>)
ComponentUser(pkg, name) ==
    Component(pkg, name, <<"s", "t", "r", "u", "c", "t">>, << CField(<<"s", "t", "r", "i", "n", "g">>, <<"i", "d">>, <<>>, <<>>, <<>>) >>)

\* The struct T whose field V is of an interface type, "any" for the resolver.
ComponentT ==
    Component(<<"a">>, <<"T">>, <<"s", "t", "r", "u", "c", "t">>, << CField(<<"a", "n", "y">>, <<"v">>, <<>>, <<>>, <<>>) >>)

\* The struct b.User with one field tagged for JSON and one tagged for forms:
\*   type User struct { ID string `json:"id"`; Filter string `form:"f"` }
ComponentMixed ==
    Component(<<"b">>, <<"U", "s", "e", "r">>, <<"s", "t", "r", "u", "c", "t">>,
              << CField(<<"s", "t", "r", "i", "n", "g">>, <<"i", "d">>, <<>>, <<>>, <<>>),
                 CField(<<"s", "t", "r", "i", "n", "g">>, <<>>, <<"f">>, <<>>, <<>>) >>)

ComponentLists ==
    { <<>>,
      << ComponentT >>,
      << ComponentMixed >>,
      << ComponentQ >>,
      << ComponentQ, ComponentH, ComponentUser(<<"a">>, <<"U", "s", "e", "r">>) >>,
      << ComponentUser(<<"a">>, <<"U", "s", "e", "r">>), ComponentUser(<<"b">>, <<"U", "s", "e", "r">>), ComponentUser(<<"a">>, <<"U", "s", "e", "r", "_", "1">>) >>,
      << ComponentUser(<<"b">>, <<"U", "s", "e", "r">>), ComponentH, ComponentUser(<<"a">>, <<"U", "s", "e", "r">>) >> }

RouteSeqs == UNION { [1..n -> EmitRouteTemplates] : n \in 1..MaxEmitRoutes }

NoPaths == {}

InitEmit ==
    /\ service \in [Config : BOOLEAN, Routes : RouteSeqs, Components : ComponentLists]
    /\ genState = "start"
    /\ genRun = 1
    /\ endpointIdx = 1
    /\ collisionSafeNames = <<>>
    /\ operationIDs = <<>>
    /\ paths = NoPaths
    /\ componentSchemas = <<>>
    /\ firstPaths = NoPaths

\* astra.ContentTypeToBindingTag.
ContentTypeToBindingTag(contentType) ==
    IF contentType = <<"a", "p", "p", "l", "i", "c", "a", "t", "i", "o", "n", "/", "j", "s", "o", "n">> THEN JSONBindingTag
    ELSE IF contentType \in { <<"a", "p", "p", "l", "i", "c", "a", "t", "i", "o", "n", "/", "x", "-", "w", "w", "w", "-", "f", "o", "r", "m", "-", "u", "r", "l", "e", "n", "c", "o", "d", "e", "d">>, <<"m", "u", "l", "t", "i", "p", "a", "r", "t", "/", "f", "o", "r", "m", "-", "d", "a", "t", "a">> }
    THEN FormBindingTag
    ELSE NoBindingTag

\* A Parameter of an operation.
Parameter(name, in, required, style, explode, schema) ==
    [Name |-> name, In |-> in, Required |-> required, Style |-> style, Explode |-> explode,
     Schema |-> schema]

\* Lines 103-117: the parameters of the path.
PathParameters(names, endpoint) ==
    LET bound == SelectSeq(endpoint.PathParams,
                           LAMBDA p : mapParamToSchema(names, URIBindingTag, p).bound)
    IN [i \in 1..Len(bound) |->
          Parameter(bound[i].Name, "path", bound[i].IsRequired, "", FALSE,
                    ensureSchema(mapParamToSchema(names, URIBindingTag, bound[i]).schema))]

\* Lines 119-157: the lists of parameters a request header may give, one for
\* each order of the properties of a bound component.
HeaderParametersOf(names, fields, requestHeader) ==
    IF requestHeader.IsBound
    THEN LET f == findComponentByPackageAndType(fields, requestHeader.Field.Package,
                                                requestHeader.Field.Type)
             component == componentToSchema(names, f.field, HeaderBindingTag)
         IN IF ~f.found \/ ~component.bound THEN { <<>> }
            ELSE { [i \in 1..Len(order) |->
                      Parameter(order[i].Name, "header", requestHeader.IsRequired, "", FALSE,
                                ensureSchema(order[i].Schema))] :
                   order \in MapIterationOrders(component.schema.Properties) }
    ELSE LET m == mapParamToSchema(names, HeaderBindingTag, requestHeader)
         IN IF ~m.bound THEN { <<>> }
            ELSE { << Parameter(requestHeader.Name, "header", requestHeader.IsRequired, "",
                                FALSE, ensureSchema(m.schema)) >> }

\* Lines 159-207: the same for a query parameter.
QueryParametersOf(names, fields, queryParam) ==
    LET m == mapParamToSchema(names, FormBindingTag, queryParam) IN
    IF ~m.bound THEN { <<>> }
    ELSE IF queryParam.IsBound
    THEN LET f == findComponentByPackageAndType(fields, queryParam.Field.Package,
                                                queryParam.Field.Type)
             component == componentToSchema(names, f.field, FormBindingTag)
         IN IF ~f.found \/ ~component.bound THEN { <<>> }
            ELSE { [i \in 1..Len(order) |->
                      Parameter(order[i].Name, "query", queryParam.IsRequired,
                                getQueryParamStyle(ensureSchema(order[i].Schema)).style,
                                getQueryParamStyle(ensureSchema(order[i].Schema)).explode,
                                ensureSchema(order[i].Schema))] :
                   order \in MapIterationOrders(component.schema.Properties) }
    ELSE { << Parameter(queryParam.Name, "query", queryParam.IsRequired,
                        getQueryParamStyle(m.schema).style, getQueryParamStyle(m.schema).explode,
                        ensureSchema(m.schema)) >> }

\* The lists of parameters the loop over the request headers, or over the
\* query parameters, may append.
RECURSIVE ParameterLists(_, _, _, _)
ParameterLists(names, fields, params, in) ==
    IF params = <<>> THEN { <<>> }
    ELSE { a \o b : a \in (IF in = "header" THEN HeaderParametersOf(names, fields, params[1])
                                             ELSE QueryParametersOf(names, fields, params[1])),
                   b \in ParameterLists(names, fields, Tail(params), in) }

\* The content of the request body when an entry never replaces an earlier
\* one of its content type.
RECURSIVE RequestBodyContentFirstKept(_, _)
RequestBodyContentFirstKept(names, body) ==
    IF body = <<>> THEN <<>>
    ELSE LET bodyParam == body[1]
             after == RequestBodyContentFirstKept(names, Tail(body))
             m == mapFieldToSchema(names, ContentTypeToBindingTag(bodyParam.ContentType),
                                   bodyParam.Field)
         IN IF ~m.bound THEN after
            ELSE MapPut(after, bodyParam.ContentType,
                        IF bodyParam.Name # <<>>
                        THEN [TypeSchema(<<"o", "b", "j", "e", "c", "t">>) EXCEPT
                                 !.Properties = << [Name |-> bodyParam.Name, Schema |-> m.schema] >>]
                        ELSE m.schema)

\* Lines 209-236: the content of the request body, nil when no body is bound.
RECURSIVE RequestBodyContent(_, _)
RequestBodyContent(names, body) ==
    IF body = <<>> THEN <<>>
    ELSE LET bodyParam == body[Len(body)]
             before == RequestBodyContent(names, SubSeq(body, 1, Len(body) - 1))
             m == mapFieldToSchema(names, ContentTypeToBindingTag(bodyParam.ContentType),
                                   bodyParam.Field)
         IN IF ~m.bound THEN before
            ELSE MapPut(before, bodyParam.ContentType,
                        IF bodyParam.Name # <<>>
                        THEN [TypeSchema(<<"o", "b", "j", "e", "c", "t">>) EXCEPT
                                 !.Properties = << [Name |-> bodyParam.Name, Schema |-> m.schema] >>]
                        ELSE m.schema)

\* Lines 253-288: the responses, a map from status codes to the content of
\* each content type; the schema of an entry holds the content map.
RECURSIVE Responses(_, _)
Responses(names, returnTypes) ==
    IF returnTypes = <<>> THEN <<>>
    ELSE LET returnType == returnTypes[Len(returnTypes)]
             before == Responses(names, SubSeq(returnTypes, 1, Len(returnTypes) - 1))
             m == mapFieldToSchema(names, ContentTypeToBindingTag(returnType.ContentType),
                                   returnType.Field)
             statusCode == Itoa(returnType.StatusCode)
             set == { i \in 1..Len(before) : before[i].Name = statusCode }
             content == IF set = {} THEN <<>> ELSE before[CHOOSE i \in set : TRUE].Schema
         IN MapPut(before, statusCode,
                   IF m.bound /\ ~isSchemaEmpty(m.schema)
                   THEN MapPut(content, returnType.ContentType, m.schema)
                   ELSE content)

ResponsesOf(names, endpoint) ==
    IF Len(endpoint.ReturnTypes) = 0
    THEN << [Name |-> <<"2", "0", "0">>,
             Schema |-> << [Name |-> <<"a", "p", "p", "l", "i", "c", "a", "t", "i", "o", "n", "/", "j", "s", "o", "n">>, Schema |-> TypeSchema(<<"o", "b", "j", "e", "c", "t">>)] >>] >>
    ELSE Responses(names, endpoint.ReturnTypes)

\* The operation ID suffixed with the count of its earlier uses.
OperationIDOfEarlierUses(ids, endpoint) ==
    LET operationID == IF endpoint.OperationID = <<>>
                       THEN defaultOperationID(endpoint.Method, endpoint.Path)
                       ELSE endpoint.OperationID
        used == { i \in 1..Len(ids) : ids[i].id = operationID }
    IN IF operationID = <<>> THEN [id |-> <<>>, ids |-> ids]
       ELSE IF used # {}
       THEN LET i == CHOOSE k \in used : TRUE
            IN [id |-> operationID \o <<"_">> \o Itoa(ids[i].count),
                ids |-> [ids EXCEPT ![i].count = @ + 1]]
       ELSE [id |-> operationID, ids |-> Append(ids, [id |-> operationID, count |-> 1])]

\* Lines 300-313: the operation ID of the endpoint and the counts after it.
OperationIDOf(ids, endpoint) ==
    LET operationID == IF endpoint.OperationID = <<>>
                       THEN defaultOperationID(endpoint.Method, endpoint.Path)
                       ELSE endpoint.OperationID
        used == { i \in 1..Len(ids) : ids[i].id = operationID }
    IN IF operationID = <<>> THEN [id |-> <<>>, ids |-> ids]
       ELSE IF used # {}
       THEN LET i == CHOOSE k \in used : TRUE
                count == ids[i].count + 1
            IN [id |-> operationID \o <<"_">> \o Itoa(count),
                ids |-> [ids EXCEPT ![i].count = count]]
       ELSE [id |-> operationID, ids |-> Append(ids, [id |-> operationID, count |-> 1])]

HTTPMethods == { <<"G", "E", "T">>, <<"P", "O", "S", "T">>, <<"P", "U", "T">>, <<"P", "A", "T", "C", "H">>, <<"D", "E", "L", "E", "T", "E">>, <<"H", "E", "A", "D">>, <<"O", "P", "T", "I", "O", "N", "S">> }

\* Lines 353-381: the schemas of one component under the binding tags given.
RECURSIVE addComponentSchema(_, _, _, _)
addComponentSchema(schemas, names, component, bindingTags) ==
    IF bindingTags = <<>> THEN schemas
    ELSE LET c == componentToSchema(names, component, bindingTags[1])
             componentName == makeComponentRefName(names, bindingTags[1], component.Name,
                                                   component.Package)
         IN addComponentSchema(IF c.bound /\ componentName # <<>>
                               THEN MapPut(schemas, componentName, c.schema)
                               ELSE schemas,
                               names, component, Tail(bindingTags))

RECURSIVE ComponentSchemas(_, _)
ComponentSchemas(names, fields) ==
    IF fields = <<>> THEN <<>>
    ELSE LET component == fields[Len(fields)]
             x == ExtractBindingTags(component.StructFields)
         IN addComponentSchema(ComponentSchemas(names, SubSeq(fields, 1, Len(fields) - 1)),
                               names, component,
                               IF x.uniqueBindings THEN x.bindingTags
                               ELSE << preferredComponentBinding(x.bindingTags) >>)

\* Generate returns ErrConfigNotFound on a service with no config.
ConfigNotFound ==
    /\ genState = "start"
    /\ ~service.Config
    /\ genState' = "failed"
    /\ UNCHANGED << service, genRun, endpointIdx, collisionSafeNames, operationIDs, paths,
                    componentSchemas, firstPaths >>
    /\ UNCHANGED notEmitVars

\* Lines 72-81: the names are computed before any path is added.
MakeCollisionSafeNames ==
    /\ genState = "start"
    /\ service.Config
    /\ collisionSafeNames' = makeCollisionSafeNamesFromComponents(service.Components)
    /\ paths' = NoPaths
    /\ operationIDs' = <<>>
    /\ componentSchemas' = <<>>
    /\ endpointIdx' = 1
    /\ genState' = "paths"
    /\ UNCHANGED << service, genRun, firstPaths >>
    /\ UNCHANGED notEmitVars

\* Lines 83-345: one turn of the loop over the routes.
AddPath ==
    /\ genState = "paths"
    /\ endpointIdx <= Len(service.Routes)
    /\ LET endpoint == [service.Routes[endpointIdx] EXCEPT
                           !.Path = MapPathParams(service.Routes[endpointIdx].Path)]
           o == OperationIDOf(operationIDs, endpoint)
       IN \E headers \in ParameterLists(collisionSafeNames, service.Components,
                                        endpoint.RequestHeaders, "header"),
             queries \in ParameterLists(collisionSafeNames, service.Components,
                                        endpoint.QueryParams, "query") :
            \E parameters \in sortSlice(PathParameters(collisionSafeNames, endpoint)
                                            \o headers \o queries) :
               LET operation == [OperationID |-> o.id,
                                 Parameters |-> parameters,
                                 RequestBody |-> RequestBodyContent(collisionSafeNames,
                                                                    endpoint.Body),
                                 Responses |-> ResponsesOf(collisionSafeNames, endpoint)]
               IN /\ paths' = IF endpoint.Method \in HTTPMethods
                              THEN { p \in paths : ~(p.Path = endpoint.Path
                                                     /\ p.Method = endpoint.Method) }
                                   \cup { [Path |-> endpoint.Path, Method |-> endpoint.Method,
                                           Operation |-> operation] }
                              ELSE paths
                  /\ operationIDs' = o.ids
    /\ endpointIdx' = endpointIdx + 1
    /\ UNCHANGED << service, genState, genRun, collisionSafeNames, componentSchemas, firstPaths >>
    /\ UNCHANGED notEmitVars

\* Lines 348-382: the component schemas, once every route has its path.
AddComponents ==
    /\ genState = "paths"
    /\ endpointIdx > Len(service.Routes)
    /\ componentSchemas' = ComponentSchemas(collisionSafeNames, service.Components)
    /\ genState' = "marshal"
    /\ UNCHANGED << service, genRun, endpointIdx, collisionSafeNames, operationIDs, paths,
                    firstPaths >>
    /\ UNCHANGED notEmitVars

\* Lines 384-435: the document is marshalled and written.
WriteFile ==
    /\ genState = "marshal"
    /\ genState' = "written"
    /\ UNCHANGED << service, genRun, endpointIdx, collisionSafeNames, operationIDs, paths,
                    componentSchemas, firstPaths >>
    /\ UNCHANGED notEmitVars

\* Lines 427-431: os.WriteFile fails.
WriteFileFails ==
    /\ genState = "marshal"
    /\ genState' = "failed"
    /\ UNCHANGED << service, genRun, endpointIdx, collisionSafeNames, operationIDs, paths,
                    componentSchemas, firstPaths >>
    /\ UNCHANGED notEmitVars

Generate ==
    \/ ConfigNotFound
    \/ MakeCollisionSafeNames
    \/ AddPath
    \/ AddComponents
    \/ WriteFile
    \/ WriteFileFails

\* Generate is run a second time on the same service; the paths of the first
\* run are kept for comparison. collisionSafeNames is a package variable.
GenerateAgain ==
    /\ genState = "written"
    /\ genRun = 1
    /\ genRun' = 2
    /\ firstPaths' = paths
    /\ genState' = "start"
    /\ UNCHANGED << service, endpointIdx, collisionSafeNames, operationIDs, paths, componentSchemas >>
    /\ UNCHANGED notEmitVars

NextEmit == Generate \/ GenerateAgain

\* The operations of the document.
Operations(ps) == { p.Operation : p \in ps }

\* C6: a second run of Generate on the same service emits, for every operation,
\* the same ordered Parameters list as the first run.
C6_ParametersSameOnEveryRun ==
    (genRun = 2 /\ genState = "written") =>
        \A p \in paths : \E q \in firstPaths :
            /\ q.Path = p.Path
            /\ q.Method = p.Method
            /\ q.Operation.Parameters = p.Operation.Parameters

\* C7: once the names are made, no two name entries have the same final
\* schema name.
C7_FinalNamesDistinct ==
    genState \in { "paths", "marshal", "written" } =>
        \A i, j \in 1..Len(collisionSafeNames) :
            collisionSafeNames[i].finalName = collisionSafeNames[j].finalName => i = j

\* C8: the operation IDs of the operations of a written document are pairwise
\* distinct.
C8_OperationIDsDistinct ==
    genState = "written" =>
        \A p, q \in paths : p.Operation.OperationID = q.Operation.OperationID => p = q

\* C9: no operation of the document holds two parameters of the same name and
\* the same location.
C9_NoDuplicateParameter ==
    \A p \in paths : \A i, j \in 1..Len(p.Operation.Parameters) :
        (/\ p.Operation.Parameters[i].Name = p.Operation.Parameters[j].Name
         /\ p.Operation.Parameters[i].In = p.Operation.Parameters[j].In) => i = j

\* The key-to-name table that the name entries amount to.
NameTable(names) ==
    UNION { { << names[i].keys[k], NameOfKey(names, names[i].keys[k]) >> :
                k \in 1..Len(names[i].keys) } : i \in 1..Len(names) }

\* C25: the key-to-name table made for the components is the table made for
\* each of their permutations.
C25_NamesOrderIndependent ==
    (genState = "paths" /\ endpointIdx = 1) =>
        \A components \in Orders(service.Components) :
            NameTable(makeCollisionSafeNamesFromComponents(components))
                = NameTable(collisionSafeNames)

\* The names are made for b.User, a.H and a.User, in that order: a.User, first
\* in the order of packages, is User_1 and b.User is User_2.
C25_Witness_CollidingOutOfOrder ==
    /\ genState = "paths" /\ endpointIdx = 1
    /\ Len(service.Components) = 3
    /\ service.Components[1].Package = <<"b">>
    /\ << <<"a", ".", "j", "s", "o", "n", ".", "U", "s", "e", "r">>, <<"U", "s", "e", "r", "_", "1">> >> \in NameTable(collisionSafeNames)
    /\ << <<"b", ".", "j", "s", "o", "n", ".", "U", "s", "e", "r">>, <<"U", "s", "e", "r", "_", "2">> >> \in NameTable(collisionSafeNames)

\* The route Generate is at, its path in the OpenAPI form.
CurrentEndpoint ==
    [service.Routes[endpointIdx] EXCEPT !.Path = MapPathParams(service.Routes[endpointIdx].Path)]

\* The operation ID the route asks for, explicit or defaulted.
BaseOperationID(endpoint) ==
    IF endpoint.OperationID = <<>> THEN defaultOperationID(endpoint.Method, endpoint.Path)
    ELSE endpoint.OperationID

\* The number of earlier routes of the run that asked for the operation ID.
EarlierUses(id) ==
    LET used == { i \in 1..Len(operationIDs) : operationIDs[i].id = id }
    IN IF used = {} THEN 0 ELSE operationIDs[CHOOSE i \in used : TRUE].count

\* A turn of the loop over the routes that adds an operation.
AddsOperation ==
    /\ genState = "paths" /\ endpointIdx <= Len(service.Routes)
    /\ CurrentEndpoint.Method \in HTTPMethods
    /\ BaseOperationID(CurrentEndpoint) # <<>>

\* The operation ID under which the turn's operation stands in the paths.
EmittedAs(id) ==
    \E p \in paths' : /\ p.Path = CurrentEndpoint.Path
                       /\ p.Method = CurrentEndpoint.Method
                       /\ p.Operation.OperationID = id

\* C24: a route whose operation ID was used by n >= 1 earlier routes is
\* emitted with the ID suffixed _n; the first route using an ID gets it
\* unsuffixed.
C24_SuffixIsEarlierUses ==
    [][AddsOperation =>
          LET id == BaseOperationID(CurrentEndpoint)
              n == EarlierUses(id)
          IN EmittedAs(IF n = 0 THEN id ELSE id \o <<"_">> \o Itoa(n))]_vars

\* C24, as the code has it: a route whose operation ID was used by n >= 1
\* earlier routes is emitted with the ID suffixed _(n+1), so the second route
\* using an ID gets _2; the first route using an ID gets it unsuffixed.
C24_SuffixIsUsesSoFar ==
    [][AddsOperation =>
          LET id == BaseOperationID(CurrentEndpoint)
              n == EarlierUses(id)
          IN EmittedAs(IF n = 0 THEN id ELSE id \o <<"_">> \o Itoa(n + 1))]_vars

\* The document holds POST /c under the operation ID a and PUT /c, which asks
\* for the same ID, under a_2.
C24_Witness_SecondUse ==
    \E p, q \in paths :
        /\ p.Method = <<"P", "O", "S", "T">> /\ p.Operation.OperationID = <<"a">>
        /\ q.Method = <<"P", "U", "T">> /\ q.Operation.OperationID = <<"a", "_", "2">>

\* The schemas of the document: of the parameters, the request bodies and
\* the responses of the operations, and of the components.
EmittedSchemas ==
    UNION { { p.Operation.Parameters[i].Schema : i \in 1..Len(p.Operation.Parameters) }
            \cup { p.Operation.RequestBody[i].Schema : i \in 1..Len(p.Operation.RequestBody) }
            \cup UNION { { p.Operation.Responses[i].Schema[j].Schema :
                              j \in 1..Len(p.Operation.Responses[i].Schema) } :
                          i \in 1..Len(p.Operation.Responses) } : p \in paths }
    \cup { componentSchemas[i].Schema : i \in 1..Len(componentSchemas) }

\* C16: no entry of the properties of an emitted schema, inline or component,
\* is the empty schema.
C16_NoEmptyProperty ==
    \A schema \in EmittedSchemas : \A i \in 1..Len(schema.Properties) :
        ~isSchemaEmpty(schema.Properties[i].Schema)

\* What a body entry alone gives: whether it maps to a schema, and the schema
\* of its media type.
BodyEntry(bodyParam) ==
    LET m == mapFieldToSchema(collisionSafeNames,
                              ContentTypeToBindingTag(bodyParam.ContentType), bodyParam.Field)
    IN [bound |-> m.bound,
        schema |-> IF bodyParam.Name # <<>>
                   THEN [TypeSchema(<<"o", "b", "j", "e", "c", "t">>) EXCEPT
                            !.Properties = << [Name |-> bodyParam.Name, Schema |-> m.schema] >>]
                   ELSE m.schema]

\* The positions of the route's body entries of a content type.
BodyEntriesOf(body, contentType) == { i \in 1..Len(body) : body[i].ContentType = contentType }

Max(S) == CHOOSE x \in S : \A y \in S : y <= x

\* The schemas the turn's operation holds for a content type.
EmittedFor(contentType) ==
    { c.Schema : c \in UNION { { p.Operation.RequestBody[k] :
                                   k \in { j \in 1..Len(p.Operation.RequestBody) :
                                             p.Operation.RequestBody[j].Name = contentType } } :
                                p \in { q \in paths' : /\ q.Path = CurrentEndpoint.Path
                                                        /\ q.Method = CurrentEndpoint.Method } } }

\* C28: when several body entries of a route share a content type, the one
\* schema emitted for it is the schema built from the last of them.
C28_LastEntryWins ==
    [][AddsOperation =>
          \A i \in 1..Len(CurrentEndpoint.Body) :
             LET entries == BodyEntriesOf(CurrentEndpoint.Body, CurrentEndpoint.Body[i].ContentType)
             IN Cardinality(entries) > 1 =>
                   EmittedFor(CurrentEndpoint.Body[i].ContentType)
                      = { BodyEntry(CurrentEndpoint.Body[Max(entries)]).schema }]_vars

\* C28, as the code has it: the one schema emitted for the content type is
\* built from the last of the entries that map to a schema; a content type
\* none of whose entries maps to a schema is not emitted.
C28_LastBoundEntryWins ==
    [][AddsOperation =>
          \A i \in 1..Len(CurrentEndpoint.Body) :
             LET entries == BodyEntriesOf(CurrentEndpoint.Body, CurrentEndpoint.Body[i].ContentType)
                 bound == { j \in entries : BodyEntry(CurrentEndpoint.Body[j]).bound }
             IN Cardinality(entries) > 1 =>
                   EmittedFor(CurrentEndpoint.Body[i].ContentType)
                      = IF bound = {} THEN {}
                        ELSE { BodyEntry(CurrentEndpoint.Body[Max(bound)]).schema }]_vars

\* POST /c is emitted: its form content holds the field m alone, and its JSON
\* content is the string of the first entry, the second naming no component.
C28_Witness_TwoFormFields ==
    \E p \in paths :
       /\ p.Method = <<"P", "O", "S", "T">>
       /\ \E k \in 1..Len(p.Operation.RequestBody) :
             /\ p.Operation.RequestBody[k].Name = <<"a", "p", "p", "l", "i", "c", "a", "t", "i", "o", "n", "/", "x", "-", "w", "w", "w", "-", "f", "o", "r", "m", "-", "u", "r", "l", "e", "n", "c", "o", "d", "e", "d">>
             /\ Len(p.Operation.RequestBody[k].Schema.Properties) = 1
             /\ p.Operation.RequestBody[k].Schema.Properties[1].Name = <<"m">>
       /\ \E k \in 1..Len(p.Operation.RequestBody) :
             /\ p.Operation.RequestBody[k].Name = <<"a", "p", "p", "l", "i", "c", "a", "t", "i", "o", "n", "/", "j", "s", "o", "n">>
             /\ p.Operation.RequestBody[k].Schema.Type = <<"s", "t", "r", "i", "n", "g">>

\* The references a schema holds: its own, those of its items and those of
\* its properties.
RECURSIVE RefsOf(_)
RefsOf(schema) ==
    (IF schema.Ref # <<>> THEN { schema.Ref } ELSE {})
    \cup UNION { RefsOf(schema.Items[i]) : i \in 1..Len(schema.Items) }
    \cup UNION { RefsOf(schema.Properties[i].Schema) : i \in 1..Len(schema.Properties) }

\* The references components.schemas answers.
ComponentRefs ==
    { <<"#", "/", "c", "o", "m", "p", "o", "n", "e", "n", "t", "s", "/", "s", "c", "h", "e", "m", "a", "s", "/">>
         \o componentSchemas[i].Name : i \in 1..Len(componentSchemas) }

\* C30: in the document Generate has put together, every $ref of an operation
\* or of a component schema names a key of components.schemas.
C30_EveryRefResolves ==
    genState \in {"marshal", "written"} =>
        \A schema \in EmittedSchemas : RefsOf(schema) \subseteq ComponentRefs

(***************************************************************************)
(*                           HANDLER LOCATOR                               *)
(***************************************************************************)

\* strings.HasSuffix and strings.TrimSuffix.
HasSuffix(s, suffix) ==
    Len(s) >= Len(suffix) /\ SubSeq(s, Len(s) - Len(suffix) + 1, Len(s)) = suffix

TrimSuffix(s, suffix) ==
    IF HasSuffix(s, suffix) THEN SubSeq(s, 1, Len(s) - Len(suffix)) ELSE s

FmSuffix == <<"-", "f", "m">>

\* The handler names of the model, each with and without the suffix -fm, and
\* the locations an index may give them.
HandlerNames == { <<"h">>, <<"h">> \o FmSuffix, <<"h">> \o FmSuffix \o FmSuffix, <<"g">> }
LocatedNames == HandlerNames \cup { <<"g">> \o FmSuffix }
HandlerLocations == { [File |-> "a.go", Line |-> 1], [File |-> "b.go", Line |-> 2] }

\* A MapHandlerLocator: nil, or its entries, at most one for a name.
NilLocator == [isNil |-> TRUE, entries |-> {}]
MapHandlerLocators ==
    { NilLocator } \cup
    { [isNil |-> FALSE, entries |-> { [Name |-> n, Loc |-> f[n]] : n \in DOMAIN f }] :
        f \in UNION { [keys -> HandlerLocations] : keys \in SUBSET HandlerNames } }

HasKey(m, name) == \E e \in m.entries : e.Name = name
Lookup(m, name) == (CHOOSE e \in m.entries : e.Name = name).Loc

NotLocated == [File |-> "", Line |-> 0, ok |-> FALSE]
LocatedAt(loc) == [File |-> loc.File, Line |-> loc.Line, ok |-> TRUE]

\* A Locate that looks the name up as it is given only.
LocateExact(m, name) ==
    IF m.isNil THEN NotLocated
    ELSE IF HasKey(m, name) THEN LocatedAt(Lookup(m, name))
    ELSE NotLocated

\* MapHandlerLocator.Locate: the exact name first, then the name without its
\* trailing -fm.
Locate(m, name) ==
    IF m.isNil THEN NotLocated
    ELSE IF HasKey(m, name) THEN LocatedAt(Lookup(m, name))
    ELSE LET normalized == TrimSuffix(name, FmSuffix)
         IN IF normalized # name /\ HasKey(m, normalized) THEN LocatedAt(Lookup(m, normalized))
            ELSE NotLocated

InitLocator ==
    /\ locatorIndex \in MapHandlerLocators
    /\ located = {}

\* A caller asks the locator for a name.
CallLocate(name) ==
    /\ \A c \in located : c.name # name
    /\ located' = located \cup { [name |-> name, result |-> Locate(locatorIndex, name)] }
    /\ UNCHANGED locatorIndex
    /\ UNCHANGED notLocatorVars

NextLocator == \E name \in LocatedNames : CallLocate(name)

\* The pairs of calls made for a name that is a key of the index and does not
\* end in -fm, and for that name followed by -fm.
FmPairs ==
    { <<c, d>> \in located \X located :
        /\ ~HasSuffix(c.name, FmSuffix)
        /\ HasKey(locatorIndex, c.name)
        /\ d.name = c.name \o FmSuffix }

\* C14 as stated: for a name n that is a key of the index and does not end in
\* -fm, Locate(n-fm) and Locate(n) return the same (file, line, true).
C14_FmSuffixSameResult ==
    \A p \in FmPairs : p[1].result.ok /\ p[2].result = p[1].result

\* C14: the same, for the names n whose n-fm is not itself a key of the index.
C14_FmSuffixSameResultUnlessKey ==
    \A p \in FmPairs :
        ~HasKey(locatorIndex, p[2].name) => (p[1].result.ok /\ p[2].result = p[1].result)

\* Both calls were made on an index that holds h and not h-fm.
C14_Witness_StrippedLookup ==
    \E p \in FmPairs :
        /\ p[1].name = <<"h">>
        /\ ~HasKey(locatorIndex, p[2].name)
        /\ p[2].result.ok
        /\ p[2].result = p[1].result

(***************************************************************************)
(*                              ROUTE INDEX                                *)
(***************************************************************************)

\* Bounds of the route-index model: the goroutines that call lookupRouteIndex,
\* and the calls they make in all.
NumLookupGoroutines == 2
MaxLookups == 3

LookupGoroutines == 1..NumLookupGoroutines

\* The names asked for, and what the file may hold: nothing (it is missing),
\* bytes that are not JSON, or the JSON of an index.
LookupNames == { <<>>, <<"h">>, <<"h">> \o FmSuffix, <<" ", "h", " ">>, <<"g">> }

IndexOld == [isNil |-> FALSE, entries |-> { [Name |-> <<"h">>, Loc |-> [File |-> "a.go", Line |-> 1]] }]
IndexNew ==
    [isNil |-> FALSE,
     entries |-> { [Name |-> <<"h">>, Loc |-> [File |-> "b.go", Line |-> 2]],
                   [Name |-> <<"g">>, Loc |-> [File |-> "b.go", Line |-> 3]] }]

NoFile == [kind |-> "missing", index |-> NilLocator]
IndexFiles ==
    { NoFile, [kind |-> "garbage", index |-> NilLocator],
      [kind |-> "json", index |-> IndexOld], [kind |-> "json", index |-> IndexNew] }

NoLookupCall == [name |-> <<>>, data |-> NoFile, index |-> NilLocator]

InitRouteIndex ==
    /\ routeIndexOnce = [state |-> "new", by |-> 0]
    /\ routeIndex = NilLocator
    /\ indexFile \in IndexFiles
    /\ lpc = [g \in LookupGoroutines |-> "idle"]
    /\ lcall = [g \in LookupGoroutines |-> NoLookupCall]
    /\ fileReads = 0
    /\ fileAtRead = NoFile
    /\ lookups = <<>>

\* Another process writes, replaces or removes the file.
FileChanges(f) ==
    /\ f # indexFile
    /\ indexFile' = f
    /\ UNCHANGED <<routeIndexOnce, routeIndex, lpc, lcall, fileReads, fileAtRead, lookups>>
    /\ UNCHANGED notRouteIndexVars

LookupReturns(g, name, result) ==
    /\ lookups' = Append(lookups, [by |-> g, name |-> name, result |-> result,
                                   once |-> routeIndexOnce.state, index |-> routeIndex])
    /\ lpc' = [lpc EXCEPT ![g] = "idle"]

\* Lines 27-30: lookupRouteIndex is called; an empty name is not looked up.
CallLookup(g, name) ==
    /\ lpc[g] = "idle"
    /\ Len(lookups) + Cardinality({ h \in LookupGoroutines : lpc[h] # "idle" }) < MaxLookups
    /\ IF name = <<>>
       THEN /\ LookupReturns(g, name, NotLocated)
            /\ UNCHANGED lcall
       ELSE /\ lpc' = [lpc EXCEPT ![g] = "once"]
            /\ lcall' = [lcall EXCEPT ![g] = [NoLookupCall EXCEPT !.name = name]]
            /\ UNCHANGED lookups
    /\ UNCHANGED <<routeIndexOnce, routeIndex, indexFile, fileReads, fileAtRead>>
    /\ UNCHANGED notRouteIndexVars

\* sync.Once lets a caller run the function when no caller has run it.
OnceAdmitsAfterFailure ==
    routeIndexOnce.state = "new" \/ (routeIndexOnce.state = "done" /\ routeIndex.isNil)

OnceAdmits == routeIndexOnce.state = "new"

\* Line 50: routeIndexOnce.Do. The first caller runs the function, a caller
\* that comes while it runs waits, a caller that comes later goes on.
EnterOnce(g) ==
    /\ lpc[g] = "once"
    /\ routeIndexOnce.state # "running"
    /\ IF OnceAdmits
       THEN /\ routeIndexOnce' = [state |-> "running", by |-> g]
            /\ lpc' = [lpc EXCEPT ![g] = "read"]
       ELSE /\ lpc' = [lpc EXCEPT ![g] = "return"]
            /\ UNCHANGED routeIndexOnce
    /\ UNCHANGED <<routeIndex, indexFile, lcall, fileReads, fileAtRead, lookups>>
    /\ UNCHANGED notRouteIndexVars

\* Lines 51-59: os.ReadFile; an error ends the function.
ReadIndexFile(g) ==
    /\ lpc[g] = "read"
    /\ fileReads' = fileReads + 1
    /\ fileAtRead' = IF fileReads = 0 THEN indexFile ELSE fileAtRead
    /\ IF indexFile.kind = "missing"
       THEN /\ routeIndexOnce' = [state |-> "done", by |-> 0]
            /\ lpc' = [lpc EXCEPT ![g] = "return"]
            /\ UNCHANGED lcall
       ELSE /\ lcall' = [lcall EXCEPT ![g].data = indexFile]
            /\ lpc' = [lpc EXCEPT ![g] = "decode"]
            /\ UNCHANGED routeIndexOnce
    /\ UNCHANGED <<routeIndex, indexFile, lookups>>
    /\ UNCHANGED notRouteIndexVars

\* Lines 61-66: json.Unmarshal; an error ends the function, else the index is
\* stored.
DecodeIndex(g) ==
    /\ lpc[g] = "decode"
    /\ routeIndex' = IF lcall[g].data.kind = "json" THEN lcall[g].data.index ELSE routeIndex
    /\ routeIndexOnce' = [state |-> "done", by |-> 0]
    /\ lpc' = [lpc EXCEPT ![g] = "return"]
    /\ UNCHANGED <<indexFile, lcall, fileReads, fileAtRead, lookups>>
    /\ UNCHANGED notRouteIndexVars

\* Line 69: loadRouteIndex returns the package variable.
ReturnIndex(g) ==
    /\ lpc[g] = "return"
    /\ lcall' = [lcall EXCEPT ![g].index = routeIndex]
    /\ lpc' = [lpc EXCEPT ![g] = "lookup"]
    /\ UNCHANGED <<routeIndexOnce, routeIndex, indexFile, fileReads, fileAtRead, lookups>>
    /\ UNCHANGED notRouteIndexVars

\* Lines 32-46: the name without blanks around it and without -fm, then the
\* name as it was given.
lookupIn(index, name) ==
    LET normalized == TrimSuffix(TrimSpace(name), FmSuffix)
    IN IF index.isNil THEN NotLocated
       ELSE IF HasKey(index, normalized) THEN LocatedAt(Lookup(index, normalized))
       ELSE IF HasKey(index, name) THEN LocatedAt(Lookup(index, name))
       ELSE NotLocated

FinishLookup(g) ==
    /\ lpc[g] = "lookup"
    /\ LookupReturns(g, lcall[g].name, lookupIn(lcall[g].index, lcall[g].name))
    /\ lcall' = [lcall EXCEPT ![g] = NoLookupCall]
    /\ UNCHANGED <<routeIndexOnce, routeIndex, indexFile, fileReads, fileAtRead>>
    /\ UNCHANGED notRouteIndexVars

NextRouteIndex ==
    \/ \E f \in IndexFiles : FileChanges(f)
    \/ \E g \in LookupGoroutines, name \in LookupNames : CallLookup(g, name)
    \/ \E g \in LookupGoroutines : EnterOnce(g)
    \/ \E g \in LookupGoroutines : ReadIndexFile(g)
    \/ \E g \in LookupGoroutines : DecodeIndex(g)
    \/ \E g \in LookupGoroutines : ReturnIndex(g)
    \/ \E g \in LookupGoroutines : FinishLookup(g)

\* The index every lookup is to see: the one the single read found in the
\* file, nil when the file was missing or did not decode.
IndexOfTheRead == IF fileAtRead.kind = "json" THEN fileAtRead.index ELSE NilLocator

\* C29: the file is read at most once, also with concurrent callers; a lookup
\* of a name returns after the read, finds nothing when the read or the
\* decoding failed, and else finds what the index of that read holds;
\* once the read is over neither it nor the index changes.
C29_IndexReadOnce ==
    /\ [](fileReads <= 1)
    /\ [](\A i \in 1..Len(lookups) :
            lookups[i].name # <<>> =>
               /\ lookups[i].once = "done"
               /\ lookups[i].index = IndexOfTheRead
               /\ lookups[i].result = lookupIn(IndexOfTheRead, lookups[i].name)
               /\ IndexOfTheRead.isNil => ~lookups[i].result.ok)
    /\ [][routeIndexOnce.state = "done" =>
            /\ routeIndexOnce' = routeIndexOnce
            /\ routeIndex' = routeIndex
            /\ fileReads' = fileReads]_vars

\* The read failed, the file was then written, and lookups of h by two
\* goroutines have returned not-found.
C29_Witness_NoRetryAfterFailure ==
    /\ fileAtRead.kind # "json" /\ fileReads = 1
    /\ indexFile.kind = "json"
    /\ Len(lookups) >= 2 /\ lookups[1].by # lookups[2].by
    /\ \A i \in 1..Len(lookups) : lookups[i].name = <<"h">> /\ ~lookups[i].result.ok

(***************************************************************************)
(*                            SPECIFICATIONS                               *)
(***************************************************************************)

\* The state of a machine that is not running.
IdleCache == InitCache
IdleResolver ==
    /\ InitResolver
    /\ shouldAddComponent = FALSE
    /\ typeTraceLimit = 0

IdleWalker ==
    /\ Routes = <<>>
    /\ routeIdx = 1
    /\ route = NewRoute("", "", <<>>, "")
    /\ wstack = <<>>
    /\ wret = NoReturn
    /\ activeFile = ""
    /\ parseState = "idle"
    /\ skippedRoutes = {}

IdleEmit ==
    /\ service = [Config |-> FALSE, Routes |-> <<>>, Components |-> <<>>]
    /\ genState = "idle"
    /\ genRun = 1
    /\ endpointIdx = 1
    /\ collisionSafeNames = <<>>
    /\ operationIDs = <<>>
    /\ paths = NoPaths
    /\ componentSchemas = <<>>
    /\ firstPaths = NoPaths

IdleLocator ==
    /\ locatorIndex = NilLocator
    /\ located = {}

IdleRouteIndex ==
    /\ InitRouteIndex
    /\ indexFile = NoFile

\* The package cache used by one caller at a time.
InitCacheSeq == InitCache /\ IdleResolver /\ IdleWalker /\ IdleEmit /\ IdleLocator /\ IdleRouteIndex
SpecCacheSeq == InitCacheSeq /\ [][NextCacheSeq]_vars

\* The package cache used by goroutines that call it concurrently.
InitCacheConc == InitCache /\ IdleResolver /\ IdleWalker /\ IdleEmit /\ IdleLocator /\ IdleRouteIndex
SpecCacheConc == InitCacheConc /\ [][NextCacheConc]_vars

\* The type resolver of one traversal session.
InitResolverSession == InitResolver /\ IdleCache /\ IdleWalker /\ IdleEmit /\ IdleLocator /\ IdleRouteIndex
SpecResolver == InitResolverSession /\ [][NextResolver]_vars

\* The resolver keeps running a call it has started.
SpecResolverFair == SpecResolver /\ WF_vars(Result)

\* ParseRoutes run on a service whose routes CreateRoutes has made.
InitParseRoutes == InitWalker /\ IdleCache /\ IdleResolver /\ IdleEmit /\ IdleLocator /\ IdleRouteIndex
SpecWalker == InitParseRoutes /\ [][NextWalker]_vars

\* Generate run twice on a service.
InitGenerate == InitEmit /\ IdleCache /\ IdleResolver /\ IdleWalker /\ IdleLocator /\ IdleRouteIndex
SpecEmit == InitGenerate /\ [][NextEmit]_vars

\* Locate called on an index.
InitLocate == InitLocator /\ IdleCache /\ IdleResolver /\ IdleWalker /\ IdleEmit /\ IdleRouteIndex
SpecLocator == InitLocate /\ [][NextLocator]_vars

\* lookupRouteIndex called by goroutines, with the file changing on disk.
InitLookups ==
    InitRouteIndex /\ IdleCache /\ IdleResolver /\ IdleWalker /\ IdleEmit /\ IdleLocator
SpecRouteIndex == InitLookups /\ [][NextRouteIndex]_vars

====
